---- MODULE Spec2Model ----
(***************************************************************************)
(* Quiz lifecycle of the mathlib_core backend: the quiz engine             *)
(* (app/core/quiz.py), the quiz routes (app/api/routes/quizzes.py) and the *)
(* partial unique index of migration 416320d5b00a, over a store of         *)
(* quizzes, quiz-exercise links and exercises.                             *)
(***************************************************************************)
EXTENDS Integers, Sequences, FiniteSets, TLC

(***************************************************************************)
(* Bounds of the model.                                                    *)
(***************************************************************************)
\* number of quiz rows ever inserted
MaxQuiz == 2
\* largest length a start request asks for
MaxLen == 3
\* number of start requests of the concurrent specification
MaxStarts == 3

(***************************************************************************)
(* The data model (app/models.py).                                         *)
(***************************************************************************)
Users == {"u1", "u2"}

QuizIds == 1..MaxQuiz

\* QuizStatusChoices
Statuses == {"new", "in_progress", "active", "submitted", "graded"}

NoTitle == "none"

ExerciseIds == {"e1", "e2", "e3"}

\* Exercise.tags of the exercises of the pool
Tags(e) ==
    CASE e = "e1" -> {"algebra"}
      [] e = "e2" -> {"algebra", "geometry"}
      [] OTHER    -> {"geometry"}

\* Exercise.solution, a string as the sequence of its characters
Solution(e) ==
    CASE e = "e1" -> <<"4">>
      [] e = "e2" -> <<" ", "7">>
      [] OTHER    -> <<>>

\* QuizExercise.is_correct: bool | None
Null == "null"

Corrects == {Null, "true", "false"}

VARIABLES
    quizzes,    \* committed quiz rows: id -> [owner, status, title]
    links,      \* committed quizexercise rows: quiz id -> (exercise id -> [position, is_correct])
    pool,       \* ids of the exercise rows
    created,    \* number of quiz rows inserted so far (ids are time ordered)
    op,         \* the function or route that served the last request
    outcome,    \* how the last request ended: "ok", or the error it raised
    txs,        \* open transactions of start requests: quiz id -> its progress
    formed,     \* the last call of form_quiz: its length, tags, and the ids of
                \* quiz.exercises of the quiz it formed
    answered,   \* answers.response of the last save or submit request
    edited,     \* the fields of the last create or update request
    courses,    \* ids of the course rows
    modules,    \* module rows: id -> [course, order]
    attachments,\* attachment rows: id -> [module, order]
    errors      \* the error list in the response to the last course creation

vars == <<quizzes, links, pool, created, op, outcome, txs, formed, answered, edited,
          courses, modules, attachments, errors>>

\* the rows of courses, modules and attachments, and the last error list
catalog == <<courses, modules, attachments, errors>>

NoLinks == [e \in {} |-> [position |-> 0, is_correct |-> Null]]

\* the comparison of the lengths turned round
Larger(a, b) == IF a < b THEN b ELSE a

Min(a, b) == IF a < b THEN a ELSE b

(***************************************************************************)
(* The storage layer.                                                      *)
(***************************************************************************)
ActiveOf(qs, o) == {q \in DOMAIN qs : qs[q].owner = o /\ qs[q].status = "active"}

\* the index created without unique=True: it rejects nothing
NonUniqueIndex(qs) == \A o \in Users : ActiveOf(qs, o) \subseteq DOMAIN qs

\* idx_unique_active_quiz_per_user: unique (owner_id) WHERE status = 'active'
UniqueActiveIndex(qs) == \A o \in Users : Cardinality(ActiveOf(qs, o)) <= 1

\* INSERT of a quiz row
Inserted(qs, id, o, st, ti) ==
    [q \in DOMAIN qs \cup {id} |->
        IF q = id THEN [owner |-> o, status |-> st, title |-> ti] ELSE qs[q]]

\* UPDATE quiz SET status = st WHERE id = q
WithStatus(qs, q, st) == [qs EXCEPT ![q].status = st]

(***************************************************************************)
(* Strings.                                                                *)
(***************************************************************************)
IsSpace(c) == c = " "

RECURSIVE LStrip(_)
LStrip(s) == IF s # <<>> /\ IsSpace(Head(s)) THEN LStrip(Tail(s)) ELSE s

RECURSIVE RStrip(_)
RStrip(s) ==
    IF s # <<>> /\ IsSpace(s[Len(s)]) THEN RStrip(SubSeq(s, 1, Len(s) - 1)) ELSE s

\* str.strip()
Strip(s) == RStrip(LStrip(s))

(***************************************************************************)
(* The engine (app/core/quiz.py).                                          *)
(***************************************************************************)
\* the tags of the WHERE clause joined by AND
QualifyingAllTags(p, tags) == {e \in p : tags \subseteq Tags(e)}

\* the SELECT of form_quiz without its WHERE clause
QualifyingAnyTag(p, tags) == p

\* the exercises the SELECT of form_quiz can return rows from
Qualifying(p, tags) ==
    IF tags = {} THEN p ELSE {e \in p : Tags(e) \cap tags # {}}

\* every link created without its position, which then defaults to 0
AllAtZero(S, count) == {[e \in S |-> 0]}

\* positions = list(range(length)); random.shuffle(positions), zipped
\* with the exercises S
Shuffles(S, count) ==
    {g \in [S -> 0..(count - 1)] : \A a, b \in S : a # b => g[a] # g[b]}

\* the link rows form_quiz can create for a length > 0: LIMIT length of
\* the qualifying exercises in any order, each with its shuffled position
LinkChoices(p, length, tags) ==
    LET qual  == Qualifying(p, tags)
        count == Min(length, Cardinality(qual))
    IN  UNION { { [e \in S |-> [position |-> f[e], is_correct |-> Null]] :
                    f \in Shuffles(S, count) } :
                S \in {X \in SUBSET qual : Cardinality(X) = count} }

\* a length <= 0 taken for the largest length instead of an empty quiz
FormedLinksDefaultLength(p, length, tags) ==
    LinkChoices(p, IF length <= 0 THEN MaxLen ELSE length, tags)

\* the link rows form_quiz can create
FormedLinks(p, length, tags) ==
    IF length <= 0 THEN {NoLinks} ELSE LinkChoices(p, length, tags)

\* deactivate_quizzes: one bulk UPDATE
\* the UPDATE without the condition on owner_id
DeactivatedOfAnyOwner(qs, o) ==
    [q \in DOMAIN qs |->
        IF qs[q].status = "active"
        THEN [qs[q] EXCEPT !.status = "in_progress"]
        ELSE qs[q]]

\* the UPDATE without the condition on the status
DeactivatedOfAnyStatus(qs, o) ==
    [q \in DOMAIN qs |->
        IF qs[q].owner = o
        THEN [qs[q] EXCEPT !.status = "in_progress"]
        ELSE qs[q]]

Deactivated(qs, o) ==
    [q \in DOMAIN qs |->
        IF qs[q].owner = o /\ qs[q].status = "active"
        THEN [qs[q] EXCEPT !.status = "in_progress"]
        ELSE qs[q]]

\* an absent key of an answer entry
Missing == "missing"

\* one entry of SubmitAnswer.response, a dict[str, str | None], is
\* [exercise_id, kind, answer]: exercise_id is an id, Null or Missing; the
\* value under "answer" is the string answer when kind = "str", and
\* otherwise None (kind = Null) or absent (kind = Missing).
\* answer.get("answer") or ""
AnswerText(a) == IF a.kind = "str" THEN a.answer ELSE <<>>

\* the answer compared with the solution as they are
Unstripped(s) == s

\* user_answer.strip(), solution.strip()
Trimmed(s) == Strip(s)

\* the entry marks its own link and clears the mark of every other link
GradeOneClearingOthers(lk, a) ==
    IF a.exercise_id \in DOMAIN lk
    THEN [e \in DOMAIN lk |->
            [lk[e] EXCEPT !.is_correct =
                IF e # a.exercise_id THEN Null
                ELSE IF Trimmed(AnswerText(a)) = Trimmed(Solution(e))
                     THEN "true" ELSE "false"]]
    ELSE lk

\* the body of the loop: an entry whose exercise_id is a key of
\* solution_map marks the link of that exercise, any other entry is logged
GradeOne(lk, a) ==
    IF a.exercise_id \in DOMAIN lk
    THEN [lk EXCEPT ![a.exercise_id].is_correct =
            IF Trimmed(AnswerText(a)) = Trimmed(Solution(a.exercise_id))
            THEN "true" ELSE "false"]
    ELSE lk

\* the entries taken from the last to the first
RECURSIVE GradedBackwards(_, _)
GradedBackwards(lk, answers) ==
    IF answers = <<>>
    THEN lk
    ELSE GradeOne(GradedBackwards(lk, Tail(answers)), Head(answers))

\* the loop over answers.response of save_quiz_progress and submit_quiz
RECURSIVE Graded(_, _)
Graded(lk, answers) ==
    IF answers = <<>>
    THEN lk
    ELSE Graded(GradeOne(lk, Head(answers)), Tail(answers))

\* the request ends without a commit: the session is rolled back
Rollback(how) ==
    /\ outcome' = how
    /\ UNCHANGED <<quizzes, links, pool, created, txs, formed>>
    /\ UNCHANGED catalog

\* the request commits the quiz rows qs and the link rows ls
Commit(how, qs, ls, n) ==
    /\ quizzes' = qs
    /\ links' = ls
    /\ created' = n
    /\ outcome' = how
    /\ UNCHANGED <<pool, txs, formed>>
    /\ UNCHANGED catalog

\* the link rows after quiz id got the rows lk
WithLinks(ls, id, lk) == [q \in DOMAIN ls \cup {id} |-> IF q = id THEN lk ELSE ls[q]]

\* form_quiz called on its own, and the caller's commit: a quiz of length
\* <= 0 is returned without being added to the session
FormQuiz(o, length, tags, title) ==
    /\ op' = "form_quiz"
    /\ UNCHANGED answered
    /\ UNCHANGED edited
    /\ outcome' = "ok"
    /\ \E lk \in FormedLinks(pool, length, tags) :
        /\ formed' = [length |-> length, tags |-> tags, exercises |-> DOMAIN lk]
        /\ IF length <= 0
           THEN UNCHANGED <<quizzes, links, created>>
           ELSE /\ created < MaxQuiz
                /\ quizzes' = Inserted(quizzes, created + 1, o, "new", title)
                /\ links' = WithLinks(links, created + 1, lk)
                /\ created' = created + 1
    /\ UNCHANGED <<pool, txs>>
    /\ UNCHANGED catalog

\* start_new_quiz leaving out the deactivation when the quiz is empty
StartFlushesSkippingEmpty(qs, id, o, length, title) ==
    LET qs0 == IF length <= 0 THEN qs ELSE Inserted(qs, id, o, "new", title)
        qs1 == IF length <= 0 THEN qs0 ELSE Deactivated(qs0, o)
        qs2 == Inserted(qs1, id, o, "active", title)
    IN  <<qs0, qs1, qs2>>

\* form_quiz, deactivate_quizzes and the promotion, as start_new_quiz and
\* the start route run them: the quiz rows after each flush
StartFlushes(qs, id, o, length, title) ==
    LET qs0 == IF length <= 0 THEN qs ELSE Inserted(qs, id, o, "new", title)
        qs1 == Deactivated(qs0, o)
        qs2 == Inserted(qs1, id, o, "active", title)
    IN  <<qs0, qs1, qs2>>

\* every flush of a request passes the unique index
AllFlushesPass(flushes) == \A i \in DOMAIN flushes : UniqueActiveIndex(flushes[i])

\* start_new_quiz, and the caller's commit
StartNewQuiz(o, length, tags, title) ==
    /\ op' = "start_new_quiz"
    /\ UNCHANGED answered
    /\ UNCHANGED edited
    /\ created < MaxQuiz
    /\ \E lk \in FormedLinks(pool, length, tags) :
        LET id == created + 1
            fl == StartFlushes(quizzes, id, o, length, title)
        IN  IF AllFlushesPass(fl)
            THEN Commit("ok", fl[3], WithLinks(links, id, lk), id)
            ELSE Rollback("conflict")

\* no quiz is returned
NoQuiz == 0

\* load_active_quiz: the first quiz, in the order of the ids, that is an
\* active quiz of the owner, or None; it writes nothing
LoadActiveQuiz(qs, o) ==
    IF ActiveOf(qs, o) = {} THEN NoQuiz
    ELSE CHOOSE q \in ActiveOf(qs, o) : \A x \in ActiveOf(qs, o) : q <= x

\* deactivate_quizzes, and the caller's commit
DeactivateQuizzes(o) ==
    /\ op' = "deactivate_quizzes"
    /\ UNCHANGED answered
    /\ UNCHANGED edited
    /\ o \in Users
    /\ Commit("ok", Deactivated(quizzes, o), links, created)

\* save_quiz_progress, and the caller's commit
SaveQuizProgressRowsOfAnyQuiz(q, answers) ==
    /\ op' = "save_quiz_progress"
    /\ q \in DOMAIN quizzes
    /\ LET qs == WithStatus(quizzes, q, "active")
       IN  IF UniqueActiveIndex(qs)
           THEN Commit("ok", qs,
                       [x \in DOMAIN links |-> Graded(links[x], answers)], created)
           ELSE Rollback("conflict")

SaveQuizProgressRows(q, answers) ==
    /\ op' = "save_quiz_progress"
    /\ q \in DOMAIN quizzes
    /\ LET qs == WithStatus(quizzes, q, "active")
       IN  IF UniqueActiveIndex(qs)
           THEN Commit("ok", qs,
                       [links EXCEPT ![q] = Graded(links[q], answers)], created)
           ELSE Rollback("conflict")

\* save_quiz_progress where the answers of the request are not kept
SaveQuizProgress(q, answers) ==
    /\ SaveQuizProgressRows(q, answers)
    /\ UNCHANGED <<answered, edited>>

\* save_quiz_progress, the answers of the request kept
SaveQuizProgressAsked(q, answers) ==
    /\ SaveQuizProgressRows(q, answers)
    /\ answered' = answers
    /\ UNCHANGED edited

\* submit_quiz of the engine, and the caller's commit
SubmitQuizRows(q, answers) ==
    /\ op' = "submit_quiz"
    /\ q \in DOMAIN quizzes
    /\ Commit("ok", WithStatus(quizzes, q, "submitted"),
              [links EXCEPT ![q] = Graded(links[q], answers)], created)

\* submit_quiz of the engine where the answers of the request are not kept
SubmitQuiz(q, answers) ==
    /\ SubmitQuizRows(q, answers)
    /\ UNCHANGED <<answered, edited>>

\* submit_quiz of the engine, the answers of the request kept
SubmitQuizAsked(q, answers) ==
    /\ SubmitQuizRows(q, answers)
    /\ answered' = answers
    /\ UNCHANGED edited

\* an optional field of a request that was not sent
Unset == "unset"

\* exercise_positions was not sent
NoPositions == [kind |-> Unset, items |-> <<>>]

\* no create or update request was served yet
NoEdit == [quiz |-> 0, owner |-> Unset, status |-> Unset, title |-> Unset, eps |-> NoPositions]

\* exercise_positions of a request: [kind, items], where kind is "list"
\* (items is the sequence of [exercise, position]), Null or Unset
ItemIds(items) == {items[i].exercise : i \in DOMAIN items}

\* the loop over seen_ids finding nothing
NoDuplicateId(items) == FALSE

HasDuplicateId(items) ==
    \E i, j \in DOMAIN items : i # j /\ items[i].exercise = items[j].exercise

\* the exercises found taken for all the exercises asked for
NoneMissing(items, p) == {}

\* missing = set(exercise_ids) - found_ids
MissingIds(items, p) == ItemIds(items) \ p

\* the links numbered by the place of their entry in the list
LinksRenumbered(items) ==
    [e \in ItemIds(items) |->
        [position |-> (CHOOSE i \in DOMAIN items : items[i].exercise = e) - 1,
         is_correct |-> Null]]

\* the rows one INSERT per entry creates (the ids are distinct)
LinksOf(items) ==
    [e \in ItemIds(items) |->
        [position |-> items[CHOOSE i \in DOMAIN items : items[i].exercise = e].position,
         is_correct |-> Null]]

\* create_quiz committing where the flush raised
CreateQuizUnchecked(o, st, title, items) ==
    /\ op' = "create_quiz"
    /\ UNCHANGED answered
    /\ UNCHANGED edited
    /\ created < MaxQuiz
    /\ LET id == created + 1
       IN  IF HasDuplicateId(items) \/ MissingIds(items, pool) # {}
           THEN Rollback("validation")
           ELSE Commit("ok", Inserted(quizzes, id, o, st, title),
                       WithLinks(links, id, LinksOf(items)), id)

\* create_quiz of the engine, and the caller's commit
CreateQuizRows(o, st, title, items) ==
    /\ op' = "create_quiz"
    /\ UNCHANGED answered
    /\ created < MaxQuiz
    /\ LET id == created + 1
           qs == Inserted(quizzes, id, o, st, title)
       IN  IF HasDuplicateId(items) \/ MissingIds(items, pool) # {}
           THEN Rollback("validation")
           ELSE IF ~UniqueActiveIndex(qs)
           THEN Rollback("conflict")
           ELSE Commit("ok", qs, WithLinks(links, id, LinksOf(items)), id)

\* create_quiz where the fields of the request are not kept
CreateQuiz(o, st, title, items) ==
    /\ CreateQuizRows(o, st, title, items)
    /\ UNCHANGED edited

\* create_quiz of the engine, the fields of the request kept
CreateQuizAsked(o, st, title, items) ==
    /\ CreateQuizRows(o, st, title, items)
    /\ edited' = [quiz |-> created + 1, owner |-> o, status |-> st, title |-> title,
                   eps |-> [kind |-> "list", items |-> items]]

\* the links replaced whenever exercise_positions is not None
RelinkedUnlessNull(old, eps) ==
    IF eps.kind = "list" THEN LinksOf(eps.items) ELSE old

\* the new links added without the old ones being deleted
RelinkedOverOld(old, eps) ==
    CASE eps.kind = Unset  -> old
      [] eps.kind = "list" ->
            [e \in DOMAIN old \cup ItemIds(eps.items) |->
                IF e \in ItemIds(eps.items) THEN LinksOf(eps.items)[e] ELSE old[e]]
      [] OTHER             -> NoLinks

\* the links of the quiz after the block under
\* "exercise_positions" in quiz_in.model_fields_set
Relinked(old, eps) ==
    CASE eps.kind = Unset  -> old
      [] eps.kind = "list" -> LinksOf(eps.items)
      [] OTHER             -> NoLinks

\* update_quiz of the engine, and the caller's commit; the primary key
\* and the foreign key of quizexercise reject a repeated or unknown exercise
UpdateQuizRows(q, st, title, eps) ==
    /\ op' = "update_quiz"
    /\ UNCHANGED answered
    /\ IF q \notin DOMAIN quizzes
       THEN Rollback("not_found")
       ELSE LET qs1 == IF st \in Statuses THEN WithStatus(quizzes, q, st) ELSE quizzes
                qs2 == IF title \notin {Null, Unset} THEN [qs1 EXCEPT ![q].title = title] ELSE qs1
                bad == eps.kind = "list"
                       /\ (HasDuplicateId(eps.items) \/ ~(ItemIds(eps.items) \subseteq pool))
                lk  == Relinked(links[q], eps)
            IN  IF ~UniqueActiveIndex(qs1)
                THEN Rollback("conflict")
                ELSE IF bad
                THEN Rollback("integrity_error")
                ELSE Commit("ok", qs2,
                            [links EXCEPT ![q] = lk], created)

\* update_quiz where the fields of the request are not kept
UpdateQuiz(q, st, title, eps) ==
    /\ UpdateQuizRows(q, st, title, eps)
    /\ UNCHANGED edited

\* update_quiz of the engine, the fields of the request kept
UpdateQuizAsked(q, st, title, eps) ==
    /\ UpdateQuizRows(q, st, title, eps)
    /\ edited' = [quiz |-> q, owner |-> Unset, status |-> st, title |-> title, eps |-> eps]

\* the rows left when quiz q is deleted (quizexercise cascades)
Without(f, q) == [x \in DOMAIN f \ {q} |-> f[x]]

\* session.delete(quiz) and the flush: Quiz.quiz_exercises has no delete
\* cascade, so the unit of work sets quiz_id of each link of the quiz to
\* None, and raises because quiz_id is a primary key column
BlanksPrimaryKey(ls, q) == ls[q] # NoLinks

\* delete_quiz of the engine, and the caller's commit
DeleteQuiz(q) ==
    /\ op' = "delete_quiz"
    /\ UNCHANGED answered
    /\ UNCHANGED edited
    /\ IF q \notin DOMAIN quizzes
       THEN Rollback("not_found")
       ELSE IF BlanksPrimaryKey(links, q)
       THEN Rollback("server_error")
       ELSE Commit("ok",
                   Without(quizzes, q), Without(links, q), created)

\* an exercise row of a store whose solutions are sol: its id, its tags
\* and its solution
ExerciseRow(e, sol) == [id |-> e, tags |-> Tags(e), solution |-> sol[e]]

\* the exercise returned as it is stored
ExerciseAsStored(row) == row

\* ExercisePublic.model_validate(exercise): the fields ExercisePublic
\* declares, which are those of ExerciseBase and the id
ExercisePublic(row) == [id |-> row.id, tags |-> row.tags]

\* the QuizPublic that start_new_quiz, load_active_quiz and get_quiz_by_id
\* build for quiz q: a QuizExerciseDataPublic per link, here as a set (the
\* positions of the links order it)
QuizPublic(qs, ls, q, sol) ==
    [id |-> q, owner_id |-> qs[q].owner, status |-> qs[q].status,
     title |-> qs[q].title,
     exercises |-> {[exercise |-> ExercisePublic(ExerciseRow(e, sol)),
                     position |-> ls[q][e].position] : e \in DOMAIN ls[q]}]

\* the link rows left when exercise e is deleted: quizexercise.exercise_id
\* is declared ON DELETE CASCADE
Unlinked(ls, e) ==
    [q \in DOMAIN ls |-> [x \in DOMAIN ls[q] \ {e} |-> ls[q][x]]]

\* create_exercise of app/crud.py, which commits
CreateExercise(e) ==
    /\ op' = "create_exercise"
    /\ e \notin pool
    /\ pool' = pool \cup {e}
    /\ outcome' = "ok"
    /\ UNCHANGED <<quizzes, links, created, txs, formed, answered, edited>>
    /\ UNCHANGED catalog

\* session.delete(exercise) and the flush, as the tests of the engine run
\* it: the row is deleted and the database deletes its links
DeleteExercise(e) ==
    /\ op' = "delete_exercise"
    /\ e \in pool
    /\ pool' = pool \ {e}
    /\ links' = Unlinked(links, e)
    /\ outcome' = "ok"
    /\ UNCHANGED <<quizzes, created, txs, formed, answered, edited>>
    /\ UNCHANGED catalog

(***************************************************************************)
(* The routes (app/api/routes/quizzes.py).                                 *)
(***************************************************************************)
\* POST /start: the rows are committed, then the response query compares
\* quiz_id with the builtin id and the request ends in a server error
StartRoute(caller, length, tags, title) ==
    /\ op' = "POST /start"
    /\ UNCHANGED answered
    /\ UNCHANGED edited
    /\ created < MaxQuiz
    /\ \E lk \in FormedLinks(pool, length, tags) :
        LET id == created + 1
            fl == StartFlushes(quizzes, id, caller, length, title)
        IN  IF AllFlushesPass(fl)
            THEN Commit("server_error", fl[3],
                        WithLinks(links, id, lk), id)
            ELSE Rollback("conflict")

\* the load route without its check of the status 'submitted'
LoadRouteAnyStatus(caller, q) ==
    /\ op' = "GET /{id}/load"
    /\ UNCHANGED answered
    /\ UNCHANGED edited
    /\ IF q \notin DOMAIN quizzes
       THEN Rollback("not_found")
       ELSE IF caller # quizzes[q].owner
       THEN Rollback("forbidden")
       ELSE Commit(IF links[q] = NoLinks THEN "ok" ELSE "server_error",
                   WithStatus(Deactivated(quizzes, caller), q, "active"),
                   links, created)

\* GET /{id}/load: the response is built from (exercise, position) tuples,
\* which QuizPublic rejects when there is one
LoadRoute(caller, q) ==
    /\ op' = "GET /{id}/load"
    /\ UNCHANGED answered
    /\ UNCHANGED edited
    /\ IF q \notin DOMAIN quizzes
       THEN Rollback("not_found")
       ELSE IF caller # quizzes[q].owner
       THEN Rollback("forbidden")
       ELSE IF quizzes[q].status = "submitted"
       THEN Rollback("not_found")
       ELSE LET qs1 == Deactivated(quizzes, caller)
                qs2 == WithStatus(qs1, q, "active")
            IN  IF UniqueActiveIndex(qs1) /\ UniqueActiveIndex(qs2)
                THEN Commit(IF links[q] = NoLinks THEN "ok" ELSE "server_error",
                            qs2, links, created)
                ELSE Rollback("conflict")

\* answer["exercise_id"] of the routes raises KeyError on an absent key
HasMissingId(answers) == \E i \in DOMAIN answers : answers[i].exercise_id = Missing

\* PUT /{id}/save: the maps are built from ex.exercise_id, which an
\* Exercise does not have, so a quiz with a link ends in a server error
SaveRouteRows(caller, q, answers) ==
    /\ op' = "PUT /{id}/save"
    /\ IF q \notin DOMAIN quizzes
       THEN Rollback("not_found")
       ELSE IF quizzes[q].status = "submitted"
       THEN Rollback("bad_request")
       ELSE IF caller # quizzes[q].owner
       THEN Rollback("forbidden")
       ELSE IF links[q] # NoLinks \/ HasMissingId(answers)
       THEN Rollback("server_error")
       ELSE Commit("ok",
                   WithStatus(quizzes, q, "in_progress"), links, created)

\* PUT /{id}/save where the answers of the request are not kept
SaveRoute(caller, q, answers) ==
    /\ SaveRouteRows(caller, q, answers)
    /\ UNCHANGED <<answered, edited>>

\* PUT /{id}/save, the answers of the request kept
SaveRouteAsked(caller, q, answers) ==
    /\ SaveRouteRows(caller, q, answers)
    /\ answered' = answers
    /\ UNCHANGED edited

\* POST /{id}/submit: the same maps; the Message it returns does not
\* validate as the declared response model QuizPublic
SubmitRouteRows(caller, q, answers) ==
    /\ op' = "POST /{id}/submit"
    /\ IF q \notin DOMAIN quizzes
       THEN Rollback("not_found")
       ELSE IF caller # quizzes[q].owner
       THEN Rollback("forbidden")
       ELSE IF links[q] # NoLinks \/ HasMissingId(answers)
       THEN Rollback("server_error")
       ELSE Commit("server_error",
                   WithStatus(quizzes, q, "submitted"), links, created)

\* POST /{id}/submit where the answers of the request are not kept
SubmitRoute(caller, q, answers) ==
    /\ SubmitRouteRows(caller, q, answers)
    /\ UNCHANGED <<answered, edited>>

\* POST /{id}/submit, the answers of the request kept
SubmitRouteAsked(caller, q, answers) ==
    /\ SubmitRouteRows(caller, q, answers)
    /\ answered' = answers
    /\ UNCHANGED edited

\* POST /: the quiz row is built from the request without its
\* exercise_positions
CreateRouteRows(caller, user_id, st, title) ==
    /\ op' = "POST /"
    /\ UNCHANGED answered
    /\ created < MaxQuiz
    /\ LET id == created + 1
           qs == Inserted(quizzes, id, caller, st, title)
       IN  IF caller # user_id
           THEN Rollback("forbidden")
           ELSE IF ~UniqueActiveIndex(qs)
           THEN Rollback("conflict")
           ELSE Commit("ok", qs, WithLinks(links, id, NoLinks), id)

\* POST / where the fields of the request are not kept
CreateRoute(caller, user_id, st, title) ==
    /\ CreateRouteRows(caller, user_id, st, title)
    /\ UNCHANGED edited

\* POST /, the fields of the request kept
CreateRouteAsked(caller, user_id, st, title) ==
    /\ CreateRouteRows(caller, user_id, st, title)
    /\ edited' = [quiz |-> created + 1, owner |-> caller, status |-> st, title |-> title,
                   eps |-> NoPositions]

\* PUT /{id}: every field that was sent is assigned, a null too; Quiz has
\* no field exercise_positions, status is NOT NULL, and the response model
\* rejects the exercises of a quiz that has links
UpdateRouteRows(caller, user_id, q, st, title, eps) ==
    /\ op' = "PUT /{id}"
    /\ UNCHANGED answered
    /\ IF q \notin DOMAIN quizzes
       THEN Rollback("not_found")
       ELSE IF caller # user_id
       THEN Rollback("forbidden")
       ELSE IF eps.kind # Unset
       THEN Rollback("server_error")
       ELSE LET qs1 == IF st \in Statuses THEN WithStatus(quizzes, q, st) ELSE quizzes
                qs2 == CASE title = Unset -> qs1
                         [] title = Null  -> [qs1 EXCEPT ![q].title = NoTitle]
                         [] OTHER         -> [qs1 EXCEPT ![q].title = title]
            IN  IF st = Null
                THEN Rollback("integrity_error")
                ELSE IF ~UniqueActiveIndex(qs2)
                THEN Rollback("conflict")
                ELSE Commit(IF links[q] = NoLinks THEN "ok" ELSE "server_error",
                            qs2, links, created)

\* PUT /{id} where the fields of the request are not kept
UpdateRoute(caller, user_id, q, st, title, eps) ==
    /\ UpdateRouteRows(caller, user_id, q, st, title, eps)
    /\ UNCHANGED edited

\* PUT /{id}, the fields of the request kept
UpdateRouteAsked(caller, user_id, q, st, title, eps) ==
    /\ UpdateRouteRows(caller, user_id, q, st, title, eps)
    /\ edited' = [quiz |-> q, owner |-> Unset, status |-> st, title |-> title, eps |-> eps]

\* DELETE /{id}
DeleteRoute(caller, q) ==
    /\ op' = "DELETE /{id}"
    /\ UNCHANGED answered
    /\ UNCHANGED edited
    /\ IF q \notin DOMAIN quizzes
       THEN Rollback("not_found")
       ELSE IF caller # quizzes[q].owner
       THEN Rollback("forbidden")
       ELSE IF BlanksPrimaryKey(links, q)
       THEN Rollback("server_error")
       ELSE Commit("ok",
                   Without(quizzes, q), Without(links, q), created)

(***************************************************************************)
(* Courses, modules and attachments (app/api/routes/courses.py and         *)
(* attachments.py).  The session of a request is committed when the        *)
(* request ends and rolled back when it raises.                            *)
(***************************************************************************)
\* the rows of the quiz engine
quizStore == <<quizzes, links, pool, created, txs, formed, answered, edited>>

Max(S) == CHOOSE x \in S : \A y \in S : y <= x

\* the attachments of module m
AttachmentsIn(att, m) == {a \in DOMAIN att : att[a].module = m}

\* SELECT max(attachment.order) WHERE module_id = m, of a module with rows
MaxOrder(att, m) == Max({att[a].order : a \in AttachmentsIn(att, m)})

\* the order counted from the largest order without the step
NextOrderWithoutStep(att, m) ==
    IF AttachmentsIn(att, m) = {} \/ MaxOrder(att, m) = 0
    THEN 0 ELSE MaxOrder(att, m)

\* (result.one() or 0) + 1: the query gives None without a row
NextOrder(att, m) ==
    (IF AttachmentsIn(att, m) = {} \/ MaxOrder(att, m) = 0
     THEN 0 ELSE MaxOrder(att, m)) + 1

\* module_id of an attachment that belongs to no module
NoModule == 0

\* unique_attachment_order_per_module: UNIQUE (module_id, order), which
\* rows without a module_id never violate
UniqueAttachmentOrder(att) ==
    \A a, b \in DOMAIN att :
        (/\ att[a].module # NoModule
         /\ att[a].module = att[b].module
         /\ att[a].order = att[b].order) => a = b

\* the ids are time ordered: the next one is larger than every id in use
NextId(rows) == Cardinality(DOMAIN rows) + 1

\* POST /attachments/ with module_id m, or without one
CreateAttachmentRoute(m) ==
    /\ op' = "POST /attachments"
    /\ IF m # NoModule /\ m \notin DOMAIN modules
       THEN outcome' = "not_found" /\ UNCHANGED attachments
       ELSE LET att == [a \in DOMAIN attachments \cup {NextId(attachments)} |->
                          IF a \in DOMAIN attachments THEN attachments[a]
                          ELSE [module |-> m,
                                order  |-> IF m = NoModule THEN 0
                                           ELSE NextOrder(attachments, m)]]
            IN  IF UniqueAttachmentOrder(att)
                THEN outcome' = "ok" /\ attachments' = att
                ELSE outcome' = "integrity_error" /\ UNCHANGED attachments
    /\ UNCHANGED <<courses, modules, errors>>
    /\ UNCHANGED quizStore

\* the place of attachment a in the list, counted from 0
IndexOf(list, a) == (CHOOSE i \in DOMAIN list : list[i] = a) - 1

\* the flush of the reordered rows: one UPDATE per attachment whose order
\* has changed, in the order of the ids, each checked against the unique
\* constraint as it is run
RECURSIVE Flushed(_, _, _)
Flushed(att, list, todo) ==
    IF todo = {}
    THEN [ok |-> TRUE, rows |-> att]
    ELSE LET a    == CHOOSE x \in todo : \A y \in todo : x <= y
             att2 == [att EXCEPT ![a].order = IndexOf(list, a)]
         IN  IF att[a].order = IndexOf(list, a)
             THEN Flushed(att, list, todo \ {a})
             ELSE IF ~UniqueAttachmentOrder(att2)
             THEN [ok |-> FALSE, rows |-> att]
             ELSE Flushed(att2, list, todo \ {a})

\* POST /attachments/{module_id}/reorder
ReorderAttachments(m, list) ==
    /\ op' = "POST /attachments/{module_id}/reorder"
    /\ LET found == {a \in DOMAIN attachments : \E i \in DOMAIN list : list[i] = a}
       IN  IF m \notin DOMAIN modules
           THEN outcome' = "not_found" /\ UNCHANGED attachments
           ELSE IF Cardinality(found) # Len(list)
           THEN outcome' = "bad_request" /\ UNCHANGED attachments
           ELSE LET r == Flushed(attachments, list, found)
                IN  IF r.ok
                    THEN outcome' = "ok" /\ attachments' = r.rows
                    ELSE outcome' = "integrity_error" /\ UNCHANGED attachments
    /\ UNCHANGED <<courses, modules, errors>>
    /\ UNCHANGED quizStore

\* the entries of the error list
OrderTooSmall(idx) == [index |-> idx, field |-> "order", error |-> <<"Order must be >= 1">>]

DuplicateOrder(idx, o) == [index |-> idx, field |-> "order", error |-> <<"Duplicate order", o>>]

RECURSIVE ModuleErrors(_, _, _)
\* a validation that looks at the order of one entry and no further
ModuleErrorsOfOneEntry(mods, i, used) ==
    IF i > Len(mods) THEN <<>>
    ELSE IF mods[i].order < 1 THEN <<OrderTooSmall(i - 1)>> ELSE <<>>

\* the loop over course_in.modules that fills errors, from entry i on,
\* with the orders in used_orders
ModuleErrors(mods, i, used) ==
    IF i > Len(mods)
    THEN <<>>
    ELSE (IF mods[i].order < 1 THEN <<OrderTooSmall(i - 1)>> ELSE <<>>)
         \o (IF mods[i].order \in used
             THEN <<DuplicateOrder(i - 1, mods[i].order)>> ELSE <<>>)
         \o ModuleErrors(mods, i + 1, used \cup {mods[i].order})

\* unique_module_order_per_course: UNIQUE (course_id, order)
UniqueModuleOrder(ms) ==
    \A a, b \in DOMAIN ms :
        (ms[a].course = ms[b].course /\ ms[a].order = ms[b].order) => a = b

\* POST /courses/
CreateCourseRoute(caller, mods) ==
    /\ op' = "POST /courses"
    /\ LET errs == ModuleErrors(mods, 1, {})
           c    == Cardinality(courses) + 1
           n    == Cardinality(DOMAIN modules)
           ms   == [m \in DOMAIN modules \cup ((n + 1)..(n + Len(mods))) |->
                        IF m \in DOMAIN modules THEN modules[m]
                        ELSE [course |-> c, order |-> mods[m - n].order]]
       IN  IF errs # <<>>
           THEN /\ outcome' = "bad_request"
                /\ errors' = errs
                /\ UNCHANGED <<courses, modules>>
           ELSE IF ~UniqueModuleOrder(ms)
           THEN /\ outcome' = "integrity_error"
                /\ errors' = <<>>
                /\ UNCHANGED <<courses, modules>>
           ELSE /\ outcome' = "ok"
                /\ errors' = <<>>
                /\ courses' = courses \cup {c}
                /\ modules' = ms
    /\ UNCHANGED attachments
    /\ UNCHANGED quizStore

(***************************************************************************)
(* Initial state and specifications.                                       *)
(***************************************************************************)
NoModules == [m \in {} |-> [course |-> 0, order |-> 0]]

NoAttachments == [a \in {} |-> [module |-> 0, order |-> 0]]

NoQuizzes == [q \in {} |-> [owner |-> "u1", status |-> "new", title |-> NoTitle]]

NoForm == [length |-> 0, tags |-> {}, exercises |-> {}]

NoTxs == [t \in {} |-> [kind |-> "none"]]

InitStore(p) ==
    /\ quizzes = NoQuizzes
    /\ links = [q \in {} |-> NoLinks]
    /\ pool = p
    /\ created = 0
    /\ op = "none"
    /\ outcome = "none"
    /\ txs = NoTxs
    /\ formed = NoForm
    /\ answered = <<>>
    /\ edited = NoEdit
    /\ courses = {}
    /\ modules = NoModules
    /\ attachments = NoAttachments
    /\ errors = <<>>

\* the requests of the lifecycle specification
StrayAnswer == [exercise_id |-> "e3", kind |-> "str", answer |-> <<" ", "4">>]

NoIdAnswer == [exercise_id |-> Missing, kind |-> "str", answer |-> <<"4">>]

LifeAnswers == {<<>>, <<StrayAnswer>>, <<NoIdAnswer>>}

LifeStarts == {[length |-> 0, tags |-> {}], [length |-> 1, tags |-> {"algebra"}]}

LifeItems == {<<>>, <<[exercise |-> "e1", position |-> 0]>>,
              <<[exercise |-> "e2", position |-> 0]>>}

\* the fields of an update request
LifeUpdates ==
    [status : Statuses \cup {Null, Unset}, eps : {NoPositions}]
    \cup {[status |-> Unset, eps |-> [kind |-> "list", items |-> <<>>]]}

\* the lifecycle specification follows the quizzes of one user; the other
\* user sends requests about them
Owners == {"u1"}

Init == InitStore({"e1"})

Next ==
    \/ \E o \in Owners, r \in LifeStarts : StartNewQuiz(o, r.length, r.tags, NoTitle)
    \/ \E o \in Owners, r \in LifeStarts : StartRoute(o, r.length, r.tags, NoTitle)
    \/ \E o \in Users : DeactivateQuizzes(o)
    \/ \E q \in QuizIds, a \in LifeAnswers : SaveQuizProgress(q, a)
    \/ \E q \in QuizIds, a \in LifeAnswers : SubmitQuiz(q, a)
    \/ \E o \in Owners, st \in Statuses, it \in LifeItems : CreateQuiz(o, st, NoTitle, it)
    \/ \E q \in QuizIds, r \in LifeUpdates : UpdateQuiz(q, r.status, Unset, r.eps)
    \/ \E q \in QuizIds : DeleteQuiz(q)
    \/ \E c \in Users, q \in QuizIds : LoadRoute(c, q)
    \/ \E c \in Users, q \in QuizIds, a \in LifeAnswers : SaveRoute(c, q, a)
    \/ \E c \in Users, q \in QuizIds, a \in LifeAnswers : SubmitRoute(c, q, a)
    \/ \E c \in Users, u \in Owners, st \in Statuses : CreateRoute(c, u, st, NoTitle)
    \/ \E c \in Users, q \in QuizIds, r \in LifeUpdates :
            UpdateRoute(c, c, q, r.status, Unset, r.eps)
    \/ \E c, u \in Users, q \in QuizIds :
            c # u /\ UpdateRoute(c, u, q, "active", Unset, NoPositions)
    \/ \E c \in Users, q \in QuizIds : DeleteRoute(c, q)

Spec == Init /\ [][Next]_vars

(***************************************************************************)
(* Starting and loading quizzes over a pool where two exercises carry the  *)
(* tag algebra and one does not.                                           *)
(***************************************************************************)
TagSets == SUBSET {"algebra", "geometry"}

\* the lengths asked for: none, one, and more than a tag has exercises
StartLengths == {0, 1, MaxLen}

InitStart == InitStore(ExerciseIds)

NextStart ==
    \/ \E o \in Users, n \in StartLengths, t \in TagSets : StartNewQuiz(o, n, t, NoTitle)
    \/ \E o \in Users, n \in StartLengths, t \in TagSets : StartRoute(o, n, t, NoTitle)
    \/ \E c \in Users, q \in QuizIds : LoadRoute(c, q)

SpecStart == InitStart /\ [][NextStart]_vars

(***************************************************************************)
(* form_quiz over every pool of the three exercises.                       *)
(***************************************************************************)
\* the lengths asked of form_quiz: length has no lower bound
FormLengths == (0 - 1)..MaxLen

InitForm ==
    /\ pool \in SUBSET ExerciseIds
    /\ quizzes = NoQuizzes
    /\ links = [q \in {} |-> NoLinks]
    /\ created = 0
    /\ op = "none"
    /\ outcome = "none"
    /\ txs = NoTxs
    /\ formed = NoForm
    /\ answered = <<>>
    /\ edited = NoEdit
    /\ courses = {}
    /\ modules = NoModules
    /\ attachments = NoAttachments
    /\ errors = <<>>

NextForm ==
    \E o \in Owners, n \in FormLengths, t \in TagSets : FormQuiz(o, n, t, NoTitle)

SpecForm == InitForm /\ [][NextForm]_vars

\* the exercises of the pool that carry one of the tags asked for; all of
\* them when no tag is asked for
Matching ==
    {e \in pool : formed.tags = {} \/ \E tg \in formed.tags : tg \in Tags(e)}

\* form_quiz accepts the request: it does not raise
Accepted(n, t) == ENABLED FormQuiz("u1", n, t, NoTitle)

\* C11: a call of form_quiz with length <= 0 returns, for every tag list
\* and every pool, a quiz without exercises, and does not raise.
ZeroLengthFormsEmpty ==
    /\ (op = "form_quiz" /\ formed.length <= 0)
       => formed.exercises = {} /\ outcome = "ok"
    /\ \A n \in FormLengths, t \in TagSets : n <= 0 => Accepted(n, t)

\* length 0 or less was asked with a tag that exercises of the pool carry
ZeroLengthAsked ==
    /\ op = "form_quiz" /\ outcome = "ok"
    /\ formed.length <= 0 /\ formed.tags # {} /\ Matching # {}
    /\ formed.exercises = {}

\* C12: a call of form_quiz with length N > 0 attaches exactly
\* min(N, number of matching exercises) exercises, all of them when fewer
\* than N match, none when none match, and does not raise.
ExactlyMinFormed ==
    /\ (op = "form_quiz" /\ formed.length > 0)
       => /\ outcome = "ok"
          /\ formed.exercises \subseteq pool
          /\ DOMAIN links[created] = formed.exercises
          /\ Cardinality(formed.exercises) =
                IF formed.length <= Cardinality(Matching)
                THEN formed.length ELSE Cardinality(Matching)
    /\ \A n \in FormLengths, t \in TagSets :
            (n > 0 /\ created < MaxQuiz) => Accepted(n, t)

\* more exercises were asked for than carry the tag: all of them came
FewerThanAsked ==
    /\ op = "form_quiz" /\ formed.tags # {}
    /\ formed.exercises # {} /\ formed.exercises = Matching
    /\ formed.length > Cardinality(formed.exercises)

\* C13: with tags given, every exercise put into the quiz carries at least
\* one of them, and every exercise of the pool that carries one of them,
\* be it only one, can be the exercise chosen.
OnlyRequestedTags ==
    /\ (op = "form_quiz" /\ formed.tags # {})
       => \A e \in formed.exercises : Tags(e) \cap formed.tags # {}
    /\ \A e \in pool, t \in TagSets :
            (created < MaxQuiz /\ Tags(e) \cap t # {})
            => ENABLED (FormQuiz("u1", 1, t, NoTitle) /\ formed'.exercises = {e})

\* two tags were asked for and an exercise that carries one of them came
PartialTagChosen ==
    /\ op = "form_quiz" /\ formed.tags = {"algebra", "geometry"}
    /\ "e1" \in formed.exercises /\ "e3" \in formed.exercises

\* C14: the positions of the links of a formed quiz are exactly
\* 0..count-1 for the count of links created, each position once.
PositionsArePermutation ==
    \A q \in DOMAIN links :
        LET count == Cardinality(DOMAIN links[q])
        IN  /\ {links[q][e].position : e \in DOMAIN links[q]} = 0..(count - 1)
            /\ \A a, b \in DOMAIN links[q] :
                    a # b => links[q][a].position # links[q][b].position

\* fewer links than asked for were created, in an order that is not the
\* order of the ids
ShuffledShortQuiz ==
    /\ op = "form_quiz" /\ formed.length > 2
    /\ DOMAIN links[created] = {"e1", "e2"}
    /\ links[created]["e1"].position = 1 /\ links[created]["e2"].position = 0

(***************************************************************************)
(* Grading: save and submit requests on one quiz whose links are given     *)
(***************************************************************************)
MaxAnswers == 2

\* an entry of answers.response whose "answer" is the string v
Entry(e, v) == [exercise_id |-> e, kind |-> "str", answer |-> v]

\* an entry whose "answer" is None (kind = Null) or absent (kind = Missing)
NoAnswer(e, kind) == [exercise_id |-> e, kind |-> kind, answer |-> <<>>]

\* the entries sent: a padded, a bare and a wrong string, None and no
\* "answer" at all, for each of the exercises and for no exercise
GradeEntries ==
    {Entry("e1", <<" ", "4", " ">>), Entry("e1", <<"7">>), NoAnswer("e1", Null),
     Entry("e2", <<"7">>), NoAnswer("e2", Missing),
     Entry("e3", <<" ", "4", " ">>), NoAnswer("e3", Null), NoAnswer("e3", Missing),
     Entry(Missing, <<" ", "4", " ">>)}

\* answers.response: the lists of at most MaxAnswers entries
GradeAnswers == UNION {[1..n -> GradeEntries] : n \in 0..MaxAnswers}

\* the exercises of the quiz: none, or two of the three
GradeQuizzes == {{}, {"e1", "e2"}, {"e1", "e3"}}

Rank(e) == CASE e = "e1" -> 0 [] e = "e2" -> 1 [] OTHER -> 2

InitGrade ==
    /\ pool = ExerciseIds
    /\ \E st \in {"active", "in_progress"} :
            quizzes = Inserted(NoQuizzes, 1, "u1", st, NoTitle)
    /\ \E S \in GradeQuizzes :
            links = [q \in {1} |->
                        [e \in S |->
                            [position |-> Cardinality({x \in S : Rank(x) < Rank(e)}),
                             is_correct |-> Null]]]
    /\ created = 1
    /\ op = "none"
    /\ outcome = "none"
    /\ txs = NoTxs
    /\ formed = NoForm
    /\ answered = <<>>
    /\ edited = NoEdit
    /\ courses = {}
    /\ modules = NoModules
    /\ attachments = NoAttachments
    /\ errors = <<>>

NextGrade ==
    \E answers \in GradeAnswers :
        \/ SaveQuizProgressAsked(1, answers)
        \/ SubmitQuizAsked(1, answers)
        \/ SaveRouteAsked("u1", 1, answers)
        \/ SubmitRouteAsked("u1", 1, answers)

SpecGrade == InitGrade /\ [][NextGrade]_vars

\* save_quiz_progress or submit_quiz of the engine has graded `answered'
EngineGraded == op \in {"save_quiz_progress", "submit_quiz"} /\ outcome = "ok"

\* the places of `answered' whose entry names exercise e
EntriesFor(e) == {i \in DOMAIN answered : answered[i].exercise_id = e}

\* s without the spaces before its first and after its last other character
Core(s) ==
    LET ns == {i \in DOMAIN s : s[i] # " "}
    IN  IF ns = {} THEN <<>>
        ELSE SubSeq(s, CHOOSE i \in ns : \A j \in ns : i <= j,
                       CHOOSE i \in ns : \A j \in ns : j <= i)

Mark(b) == IF b THEN "true" ELSE "false"

\* C15: after save_quiz_progress or submit_quiz, the link of an exercise
\* answered once with a string is marked correct exactly when the answer
\* without surrounding spaces equals the solution without surrounding
\* spaces; submit_quiz leaves the quiz submitted.
GradedByTrimmedEquality ==
    EngineGraded =>
        /\ \A q \in DOMAIN links : \A e \in DOMAIN links[q] :
            \A i \in EntriesFor(e) :
                (EntriesFor(e) = {i} /\ answered[i].kind = "str")
                => links[q][e].is_correct =
                        Mark(Core(answered[i].answer) = Core(Solution(e)))
        /\ op = "submit_quiz" => \A q \in DOMAIN quizzes : quizzes[q].status = "submitted"

\* " 4 " was submitted for e1, whose solution is "4"
PaddedAnswerSubmitted ==
    /\ op = "submit_quiz" /\ outcome = "ok"
    /\ answered = <<Entry("e1", <<" ", "4", " ">>)>>
    /\ "e1" \in DOMAIN links[1]
    /\ links[1]["e1"].is_correct = "true"
    /\ quizzes[1].status = "submitted"

\* C16: a save or submit request, through the engine or through the
\* route, with an entry whose answer is None or absent does not fail, and
\* the link of an exercise answered once so is marked correct exactly
\* when its solution is empty but for spaces.
NoAnswerGradedAsEmpty ==
    (/\ op \in {"save_quiz_progress", "submit_quiz",
                "PUT /{id}/save", "POST /{id}/submit"}
     /\ \E i \in DOMAIN answered : answered[i].kind # "str")
    => /\ outcome = "ok"
       /\ \A q \in DOMAIN links : \A e \in DOMAIN links[q] :
            \A i \in EntriesFor(e) :
                (EntriesFor(e) = {i} /\ answered[i].kind # "str")
                => links[q][e].is_correct = Mark(Core(Solution(e)) = <<>>)

\* C17: after save_quiz_progress or submit_quiz, the link of an exercise
\* named by several entries carries the mark of the last of them.
LastEntryWins ==
    EngineGraded =>
        \A q \in DOMAIN links : \A e \in DOMAIN links[q] :
            \A i \in EntriesFor(e) :
                (\A j \in EntriesFor(e) : j <= i)
                => links[q][e].is_correct =
                        Mark(Core(IF answered[i].kind = "str"
                                  THEN answered[i].answer ELSE <<>>)
                             = Core(Solution(e)))

\* e1 was answered right and then wrong in one request
RightThenWrong ==
    /\ EngineGraded
    /\ answered = <<Entry("e1", <<" ", "4", " ">>), Entry("e1", <<"7">>)>>
    /\ "e1" \in DOMAIN links[1]
    /\ links[1]["e1"].is_correct = "false"

\* C18: save_quiz_progress and submit_quiz leave every link whose exercise
\* no entry names as it was; an empty answer list changes no link.
UnansweredKept ==
    [][(op' \in {"save_quiz_progress", "submit_quiz"})
       => /\ DOMAIN links' = DOMAIN links
          /\ \A q \in DOMAIN links :
                /\ DOMAIN links'[q] = DOMAIN links[q]
                /\ \A e \in DOMAIN links[q] :
                    (\A i \in DOMAIN answered' : answered'[i].exercise_id # e)
                    => links'[q][e] = links[q][e]]_vars

\* e2 was marked by an earlier request and e1 alone by the last one
EarlierMarkKept ==
    /\ EngineGraded
    /\ answered = <<Entry("e1", <<"7">>)>>
    /\ "e2" \in DOMAIN links[1]
    /\ links[1]["e2"].is_correct = "true"
    /\ links[1]["e1"].is_correct = "false"

\* C19: a save or submit request, through the engine or through the
\* route, with an entry whose exercise_id is absent or names no exercise
\* of the quiz does not fail and sets the final status of the quiz.
UnknownEntrySkipped ==
    (/\ op \in {"save_quiz_progress", "submit_quiz",
                "PUT /{id}/save", "POST /{id}/submit"}
     /\ \E i \in DOMAIN answered :
            \A q \in DOMAIN links : answered[i].exercise_id \notin DOMAIN links[q])
    => /\ outcome = "ok"
       /\ \A q \in DOMAIN quizzes :
            quizzes[q].status = IF op = "save_quiz_progress" THEN "active"
                                ELSE IF op = "PUT /{id}/save" THEN "in_progress"
                                ELSE "submitted"

(***************************************************************************)
(* Editing: create and update requests on the quizzes of two users, with   *)
(* exercises e1 and e2 in the store and e3 in no store                     *)
(***************************************************************************)
MaxEdited == 2

Item(e, n) == [exercise |-> e, position |-> n]

\* exercise_positions of the requests: empty, one entry, two entries whose
\* positions are neither in order nor contiguous, an exercise twice, an
\* unknown exercise with and without a known one
EditItems ==
    {<<>>, <<Item("e2", 3)>>, <<Item("e1", 2), Item("e2", 0)>>,
     <<Item("e1", 0), Item("e1", 1)>>,
     <<Item("e1", 0), Item("e3", 1)>>, <<Item("e3", 0)>>}

Positions(it) == [kind |-> "list", items |-> it]

NullPositions == [kind |-> Null, items |-> <<>>]

\* the update requests: one field alone, as a value and as null, for each
\* of the three fields, and all three together
EditUpdates ==
    {[status |-> Unset, title |-> "t2", eps |-> NoPositions],
     [status |-> Unset, title |-> Null, eps |-> NoPositions],
     [status |-> "in_progress", title |-> Unset, eps |-> NoPositions],
     [status |-> Null, title |-> Unset, eps |-> NoPositions],
     [status |-> Unset, title |-> Unset, eps |-> NullPositions],
     [status |-> "in_progress", title |-> "t2", eps |-> Positions(<<Item("e2", 3)>>)]}
    \cup {[status |-> Unset, title |-> Unset, eps |-> Positions(it)] : it \in EditItems}

InitEdit == InitStore({"e1", "e2"})

\* the create requests: a new quiz titled t1, while fewer than MaxEdited
\* quizzes were created
CreateEdited(o, items) ==
    /\ created < MaxEdited
    /\ CreateQuizAsked(o, "new", "t1", items)

NextEdit ==
    \/ \E o \in Owners, it \in EditItems : CreateEdited(o, it)
    \/ \E q \in 1..MaxEdited, r \in EditUpdates :
            UpdateQuizAsked(q, r.status, r.title, r.eps)
    \/ \E c \in Owners, q \in 1..MaxEdited, r \in EditUpdates :
            UpdateRouteAsked(c, c, q, r.status, r.title, r.eps)

SpecEdit == InitEdit /\ [][NextEdit]_vars

(***************************************************************************)
(* Two owners: the quizzes of two users in every status, and the requests  *)
(* that deactivate                                                         *)
(***************************************************************************)
\* the answer that marks e1 correct
RightAnswer == <<Entry("e1", <<"4">>)>>

InitOwners == InitStore({"e1"})

NextOwners ==
    \/ \E o \in Users, st \in Statuses, it \in {<<>>, <<Item("e1", 0)>>} :
            CreateQuiz(o, st, "t1", it)
    \/ \E q \in QuizIds : SaveQuizProgress(q, RightAnswer)
    \/ \E o \in Users : DeactivateQuizzes(o)
    \/ \E o \in Users, n \in {0, 1} :
            StartNewQuiz(o, n, {}, NoTitle)
    \/ \E c \in Users, q \in QuizIds : LoadRoute(c, q)

SpecOwners == InitOwners /\ [][NextOwners]_vars

(***************************************************************************)
(* Concurrent start requests, each in a transaction of its own at the      *)
(* isolation level READ COMMITTED: start_new_quiz, which locks the row of  *)
(* the owner first, and the start route, which does not.  A transaction    *)
(* is known by the id of its quiz; its writes reach the committed rows     *)
(* when it commits.                                                        *)
(***************************************************************************)
StartIds == 1..MaxStarts

Open(o) == {t \in DOMAIN txs : txs[t].owner = o}

Opened(id, kind, o, pc, lk) ==
    [t \in DOMAIN txs \cup {id} |->
        IF t = id
        THEN [kind |-> kind, owner |-> o, pc |-> pc, lk |-> lk,
              targets |-> {}, demoted |-> {}]
        ELSE txs[t]]

Closed(id) == [t \in DOMAIN txs \ {id} |-> txs[t]]

\* SELECT User ... FOR UPDATE of start_new_quiz: waits while another
\* transaction holds a lock on the row of the owner, which every open
\* start of that owner does and no grading does
LockOwnerRow(o) ==
    /\ created < MaxStarts
    /\ \A t \in Open(o) : txs[t].kind \notin {"start_new_quiz", "POST /start"}
    /\ txs' = Opened(created + 1, "start_new_quiz", o, "form", NoLinks)
    /\ created' = created + 1
    /\ UNCHANGED <<quizzes, links, pool, op, outcome, formed, answered, edited>>
    /\ UNCHANGED catalog

\* form_quiz under the lock: the quiz row 'new' and its links, uncommitted
FormQuizLocked(t) ==
    /\ t \in DOMAIN txs /\ txs[t].pc = "form"
    /\ \E lk \in FormedLinks(pool, 1, {}) :
            txs' = [txs EXCEPT ![t].pc = "select", ![t].lk = lk]
    /\ UNCHANGED <<quizzes, links, pool, created, op, outcome, formed, answered, edited>>
    /\ UNCHANGED catalog

\* form_quiz of the start route: the insert of the quiz row locks the row
\* of the owner FOR KEY SHARE, and waits for a transaction that holds it
\* FOR UPDATE
FormQuizUnlocked(o) ==
    /\ created < MaxStarts
    /\ \A t \in Open(o) : txs[t].kind # "start_new_quiz"
    /\ \E lk \in FormedLinks(pool, 1, {}) :
            txs' = Opened(created + 1, "POST /start", o, "select", lk)
    /\ created' = created + 1
    /\ UNCHANGED <<quizzes, links, pool, op, outcome, formed, answered, edited>>
    /\ UNCHANGED catalog

\* the UPDATE of deactivate_quizzes takes its snapshot: the committed
\* active quizzes of the owner
SelectActive(t) ==
    /\ t \in DOMAIN txs /\ txs[t].pc = "select"
    /\ txs' = [txs EXCEPT ![t].pc = "demote",
                          ![t].targets = ActiveOf(quizzes, txs[t].owner)]
    /\ UNCHANGED <<quizzes, links, pool, created, op, outcome, formed, answered, edited>>
    /\ UNCHANGED catalog

\* row locks that are never released: every row counts as locked
LockedForGood(t, rows) == rows

\* the rows of the snapshot another open transaction has updated
LockedByOthers(t, rows) ==
    {r \in rows : \E u \in DOMAIN txs \ {t} : r \in txs[u].demoted}

\* the UPDATE waits for the rows another transaction has updated, looks at
\* each row again and demotes those that are still active
DemoteActive(t) ==
    /\ t \in DOMAIN txs /\ txs[t].pc = "demote"
    /\ LockedByOthers(t, txs[t].targets) = {}
    /\ txs' = [txs EXCEPT ![t].pc = "promote",
                          ![t].demoted = {r \in txs[t].targets :
                                            quizzes[r].status = "active"}]
    /\ UNCHANGED <<quizzes, links, pool, created, op, outcome, formed, answered, edited>>
    /\ UNCHANGED catalog

\* the rows as transaction t sees them once its quiz is active
ViewOf(t) ==
    LET mine == [q \in DOMAIN quizzes |->
                    IF q \in txs[t].demoted
                    THEN [quizzes[q] EXCEPT !.status = "in_progress"]
                    ELSE quizzes[q]]
    IN  Inserted(mine, t, txs[t].owner, "active", NoTitle)

\* transaction u holds an entry of the index that is not committed: a
\* start that has promoted its quiz, or a save that has written 'active'
HoldsEntry(u) ==
    \/ txs[u].pc = "commit"
    \/ txs[u].pc = "close" /\ txs[u].kind = "save_quiz_progress" /\ txs[u].demoted # {}

\* the index never lets the promotion pass an entry it cannot decide
NoIndexWait(t) == t \notin DOMAIN txs

\* the insert into the unique index waits for the end of a transaction
\* that holds an uncommitted entry of the owner, or that has demoted the
\* quiz whose entry is in the way
IndexWait(t) ==
    \/ \E u \in Open(txs[t].owner) \ {t} : HoldsEntry(u)
    \/ LockedByOthers(t, ActiveOf(quizzes, txs[t].owner) \ txs[t].demoted) # {}

\* quiz.status = 'active' and the flush: the index rejects the entry when
\* a committed active quiz of the owner is in the way, and the transaction
\* is rolled back
Promote(t) ==
    /\ t \in DOMAIN txs /\ txs[t].pc = "promote"
    /\ ~IndexWait(t)
    /\ IF UniqueActiveIndex(ViewOf(t))
       THEN /\ txs' = [txs EXCEPT ![t].pc = "commit"]
            /\ UNCHANGED <<op, outcome>>
       ELSE /\ txs' = Closed(t)
            /\ op' = txs[t].kind
            /\ outcome' = "conflict"
    /\ UNCHANGED <<quizzes, links, pool, created, formed, answered, edited>>
    /\ UNCHANGED catalog

\* the commit; the start route then fails on its response query
CommitStart(t) ==
    /\ t \in DOMAIN txs /\ txs[t].pc = "commit"
    /\ quizzes' = ViewOf(t)
    /\ links' = WithLinks(links, t, txs[t].lk)
    /\ txs' = Closed(t)
    /\ op' = txs[t].kind
    /\ outcome' = IF txs[t].kind = "start_new_quiz" THEN "ok" ELSE "server_error"
    /\ UNCHANGED <<pool, created, formed, answered, edited>>
    /\ UNCHANGED catalog

InitConc == InitStore({"e1"})

NextConc ==
    \/ \E o \in Users : LockOwnerRow(o)
    \/ \E t \in StartIds : FormQuizLocked(t)
    \/ \E o \in Users : FormQuizUnlocked(o)
    \/ \E t \in StartIds : SelectActive(t)
    \/ \E t \in StartIds : DemoteActive(t)
    \/ \E t \in StartIds : Promote(t)
    \/ \E t \in StartIds : CommitStart(t)

SpecConc == InitConc /\ [][NextConc]_vars

(***************************************************************************)
(* Properties of the lifecycle, checked under Spec.                        *)
(***************************************************************************)
Existing(q) == q \in DOMAIN quizzes

StoreUnchanged == quizzes' = quizzes /\ links' = links

\* the transition takes quiz q from status a to status b
Moves(q, a, b) ==
    /\ Existing(q) /\ quizzes[q].status = a
    /\ q \in DOMAIN quizzes' /\ quizzes'[q].status = b

StartOps == {"start_new_quiz", "POST /start"}

UpdateOps == {"update_quiz", "PUT /{id}"}

CreateOps == {"create_quiz", "POST /"}

\* C1: in every reachable state, whatever requests were served, no owner
\* has two quizzes with status 'active'.
AtMostOneActivePerOwner ==
    \A a, b \in DOMAIN quizzes :
        (/\ quizzes[a].owner = quizzes[b].owner
         /\ quizzes[a].status = "active"
         /\ quizzes[b].status = "active") => a = b

\* a start has demoted the owner's earlier quiz and left the later one active
DemotedAndActive ==
    /\ op \in StartOps
    /\ \E a, b \in DOMAIN quizzes :
        /\ a < b /\ b = created /\ quizzes[a].owner = quizzes[b].owner
        /\ quizzes[a].status = "in_progress" /\ quizzes[b].status = "active"

\* the open starts of owner o that hold their quiz promoted
Promoted(o) == {t \in Open(o) : txs[t].pc = "commit"}

\* C2: of the concurrent starts of an owner at most one holds its quiz
\* promoted at a time, and it has demoted the committed active quiz of the
\* owner; the committed rows never hold two active quizzes of an owner.
ConcurrentStartsExclusive ==
    \A o \in Users :
        /\ Cardinality(ActiveOf(quizzes, o)) <= 1
        /\ Cardinality(Promoted(o)) <= 1
        /\ \A t \in Promoted(o) : ActiveOf(quizzes, o) \subseteq txs[t].demoted

\* two starts of one owner ran together: one has committed its quiz as
\* the only active one, the other was rejected by the index and rolled back
RaceLostToIndex ==
    /\ outcome = "conflict" /\ op = "POST /start"
    /\ \E a, b \in 1..created :
        /\ a # b
        /\ a \in DOMAIN quizzes /\ quizzes[a].status = "active"
        /\ b \notin DOMAIN quizzes /\ b \notin DOMAIN txs
        /\ ActiveOf(quizzes, quizzes[a].owner) = {a}

\* the requests that would give an owner a second active quiz
SecondActiveRequest ==
    \/ /\ op' = "create_quiz"
       /\ \E o \in Users, it \in {<<>>, <<[exercise |-> "e1", position |-> 0]>>} :
            ActiveOf(quizzes, o) # {} /\ CreateQuiz(o, "active", NoTitle, it)
    \/ /\ op' = "POST /"
       /\ \E c \in Users : ActiveOf(quizzes, c) # {} /\ CreateRoute(c, c, "active", NoTitle)
    \/ /\ op' \in UpdateOps \cup {"save_quiz_progress"}
       /\ \E q \in DOMAIN quizzes :
            /\ ActiveOf(quizzes, quizzes[q].owner) \ {q} # {}
            /\ \/ UpdateQuiz(q, "active", Unset, NoPositions)
               \/ \E c \in Users : UpdateRoute(c, c, q, "active", Unset, NoPositions)
               \/ \E a \in LifeAnswers : SaveQuizProgress(q, a)

\* C3: after every request of any kind no owner has two active quizzes; a
\* request that would create a second one ends in a conflict, and a
\* conflict leaves the quiz and link rows as they were.
SecondActiveRejected ==
    [][ /\ \A a, b \in DOMAIN quizzes' :
              (/\ quizzes'[a].owner = quizzes'[b].owner
               /\ quizzes'[a].status = "active"
               /\ quizzes'[b].status = "active") => a = b
        /\ outcome' = "conflict" => StoreUnchanged
        /\ outcome' # "conflict" => ~SecondActiveRequest ]_vars

\* a create or update asking for 'active' was rejected by the index while
\* the owner's active quiz stayed
ConflictSeen ==
    /\ outcome = "conflict"
    /\ op \in CreateOps \cup UpdateOps
    /\ \E q \in DOMAIN quizzes : quizzes[q].status = "active"

\* the positions of the links of quiz q after the transition
PositionsOf(q) == {links'[q][e].position : e \in DOMAIN links'[q]}

\* C4: a start or load that commits leaves its quiz 'active' and every
\* quiz of the owner that was 'active' before it 'in_progress'; a start
\* asking for more exercises than the two that carry the tag algebra
\* creates exactly two links, at the positions 0 and 1.
ActivationDemotesOthers ==
    [][ /\ (op' \in StartOps /\ created' = created + 1)
           => /\ quizzes'[created'].status = "active"
              /\ \A a \in ActiveOf(quizzes, quizzes'[created'].owner) :
                    quizzes'[a].status = "in_progress"
              /\ \A n \in StartLengths :
                    (/\ n > 2
                     /\ \/ StartNewQuiz(quizzes'[created'].owner, n, {"algebra"}, NoTitle)
                        \/ StartRoute(quizzes'[created'].owner, n, {"algebra"}, NoTitle))
                    => /\ Cardinality(DOMAIN links'[created']) = 2
                       /\ PositionsOf(created') = {0, 1}
        /\ (op' = "GET /{id}/load" /\ outcome' \in {"ok", "server_error"})
           => \A c \in Users, q \in DOMAIN quizzes :
                LoadRoute(c, q)
                => /\ quizzes'[q].status = "active"
                   /\ \A a \in ActiveOf(quizzes, c) \ {q} :
                        quizzes'[a].status = "in_progress" ]_vars

\* quiz A was active; its owner started B, which got the two algebra
\* exercises at the positions 0 and 1 and is active, and A is in progress
StartedOverActive ==
    /\ op = "start_new_quiz" /\ outcome = "ok"
    /\ \E a, b \in DOMAIN quizzes :
        /\ a < b /\ b = created /\ quizzes[a].owner = quizzes[b].owner
        /\ quizzes[a].status = "in_progress" /\ quizzes[b].status = "active"
        /\ DOMAIN links[b] = {"e1", "e2"}
        /\ {links[b][e].position : e \in DOMAIN links[b]} = {0, 1}

\* C5: a start or load that ends in an error has committed nothing: the
\* quiz that was active is still active, and no quiz or link row was added
\* or changed; one that succeeds has committed the demotion together with
\* the promotion.
ActivationAllOrNothing ==
    [][ op' \in StartOps \cup {"GET /{id}/load"} =>
            IF outcome' = "ok"
            THEN \E q \in DOMAIN quizzes' :
                    /\ quizzes'[q].status = "active"
                    /\ ActiveOf(quizzes', quizzes'[q].owner) = {q}
            ELSE StoreUnchanged ]_vars

\* C6: a quiz goes from 'active' to 'in_progress' only in the deactivation
\* step of a start or load of another quiz of its owner, never in a save,
\* submit or load of that quiz (update requests, which write the status
\* they are given, aside).
NoDirectDemotion ==
    [][ \A q \in DOMAIN quizzes :
            Moves(q, "active", "in_progress")
            => \/ op' \in UpdateOps \cup {"deactivate_quizzes"}
               \/ /\ op' \in StartOps \cup {"GET /{id}/load"}
                  /\ ActiveOf(quizzes', quizzes[q].owner) # {} ]_vars

\* the links of q differ at most in is_correct
OnlyCorrectnessChanged(q) ==
    /\ DOMAIN links'[q] = DOMAIN links[q]
    /\ \A e \in DOMAIN links[q] : links'[q][e].position = links[q][e].position

\* C7: a save of an active quiz by its owner, through the route or the
\* engine, leaves the status 'active' and changes nothing but is_correct
\* values of that quiz.
SaveKeepsActive ==
    [][ \A q \in DOMAIN quizzes :
            (/\ quizzes[q].status = "active"
             /\ op' \in {"PUT /{id}/save", "save_quiz_progress"}
             /\ \E a \in LifeAnswers :
                    SaveRoute(quizzes[q].owner, q, a) \/ SaveQuizProgress(q, a))
            => /\ quizzes' = quizzes
               /\ \A x \in DOMAIN links : x # q => links'[x] = links[x]
               /\ OnlyCorrectnessChanged(q) ]_vars

\* C8: a save by the owner of a quiz that is not 'active' ends in the
\* invalid-state error and writes nothing.
SaveRequiresActive ==
    [][ \A q \in DOMAIN quizzes :
            (/\ quizzes[q].status # "active"
             /\ op' = "PUT /{id}/save"
             /\ \E a \in LifeAnswers : SaveRoute(quizzes[q].owner, q, a))
            => outcome' = "bad_request" /\ StoreUnchanged ]_vars

\* C9: a submit by the owner succeeds on an 'active' quiz and leaves it
\* 'submitted'; on any other status it ends in a client error and writes
\* nothing.
SubmitOnlyFromActive ==
    [][ \A q \in DOMAIN quizzes :
            (/\ op' = "POST /{id}/submit"
             /\ \E a \in LifeAnswers : SubmitRoute(quizzes[q].owner, q, a))
            => IF quizzes[q].status = "active"
               THEN outcome' = "ok" /\ quizzes'[q].status = "submitted"
               ELSE outcome' = "bad_request" /\ StoreUnchanged ]_vars

\* C10 as claimed: no request takes a quiz out of 'submitted', and no
\* request produces 'graded'.
SubmittedIsTerminal ==
    [][ /\ \A q \in DOMAIN quizzes :
              (quizzes[q].status = "submitted" /\ q \in DOMAIN quizzes')
              => quizzes'[q].status = "submitted"
        /\ \A q \in DOMAIN quizzes' :
              quizzes'[q].status = "graded"
              => Existing(q) /\ quizzes[q].status = "graded" ]_vars

\* C10 as amended: a quiz leaves 'submitted' only through an update (engine
\* or route) or through the engine's save_quiz_progress; a start, a load,
\* a save through the route, a submit, a deactivation never change the
\* status of a submitted quiz. 'graded' appears only in a create or an
\* update.
SubmittedLeftOnlyByOverwrite ==
    [][ /\ \A q \in DOMAIN quizzes :
              (/\ quizzes[q].status = "submitted"
               /\ q \in DOMAIN quizzes'
               /\ quizzes'[q].status # "submitted")
              => op' \in UpdateOps \cup {"save_quiz_progress"}
        /\ \A q \in DOMAIN quizzes' :
              (/\ quizzes'[q].status = "graded"
               /\ ~(Existing(q) /\ quizzes[q].status = "graded"))
              => op' \in CreateOps \cup UpdateOps ]_vars

\* the owner of a submitted quiz has loaded another quiz, which is active
SubmittedThenLoaded ==
    /\ op = "GET /{id}/load"
    /\ outcome \in {"ok", "server_error"}
    /\ \E a, b \in DOMAIN quizzes :
        /\ a # b /\ quizzes[a].owner = quizzes[b].owner
        /\ quizzes[a].status = "submitted" /\ quizzes[b].status = "active"

\* the quiz rows after the active quizzes of owner o became in_progress
Demoted(o) ==
    /\ DOMAIN quizzes' = DOMAIN quizzes
    /\ \A q \in DOMAIN quizzes :
        quizzes'[q] = IF quizzes[q].owner = o /\ quizzes[q].status = "active"
                      THEN [quizzes[q] EXCEPT !.status = "in_progress"]
                      ELSE quizzes[q]

\* C20: deactivate_quizzes(owner) can be called in every state and
\* succeeds; it turns every active quiz of the owner into in_progress
\* and changes nothing else, nothing at all when the owner has no active
\* quiz; it leaves the owner without an active quiz, so that a second
\* call changes nothing.
DeactivationTotalIdempotent ==
    /\ [](\A o \in Users : ENABLED DeactivateQuizzes(o))
    /\ [][\A o \in Users :
            DeactivateQuizzes(o)
            => /\ outcome' = "ok"
               /\ Demoted(o)
               /\ links' = links
               /\ (\A q \in DOMAIN quizzes :
                      ~(quizzes[q].owner = o /\ quizzes[q].status = "active"))
                  => quizzes' = quizzes
               /\ \A q \in DOMAIN quizzes' :
                      ~(quizzes'[q].owner = o /\ quizzes'[q].status = "active")]_vars

\* deactivate_quizzes has run and left an owner's quiz in_progress, none
\* active
DeactivatedOwner ==
    /\ op = "deactivate_quizzes" /\ outcome = "ok"
    /\ \E q \in DOMAIN quizzes : quizzes[q].status = "in_progress"
    /\ \A q \in DOMAIN quizzes : quizzes[q].status # "active"

(***************************************************************************)
(* create_quiz and update_quiz, checked under SpecEdit                     *)
(***************************************************************************)
\* an exercise occurs in more than one entry of the list
Repeats(items) == Cardinality({items[i].exercise : i \in DOMAIN items}) < Len(items)

\* an entry of the list names an exercise that is not in the store
NamesUnknown(items) == \E i \in DOMAIN items : items[i].exercise \notin pool

\* the links of quiz q are the entries of the list, each at its position
LinkedAs(lk, items) ==
    /\ DOMAIN lk = {items[i].exercise : i \in DOMAIN items}
    /\ \A i \in DOMAIN items : lk[items[i].exercise].position = items[i].position

\* every quiz but q, and its links, are as they were
OthersKept(q) ==
    \A x \in DOMAIN quizzes \ {q} :
        /\ x \in DOMAIN quizzes' /\ quizzes'[x] = quizzes[x]
        /\ x \in DOMAIN links' /\ links'[x] = links[x]

\* C22: create_quiz given a list in which an exercise id occurs more than
\* once raises an error and writes nothing.
DuplicateInputRejected ==
    [][(op' = "create_quiz" /\ Repeats(edited'.eps.items))
        => (outcome' = "validation" /\ StoreUnchanged)]_vars

\* the list with e1 twice was rejected
DuplicateSeen ==
    /\ op = "create_quiz" /\ outcome = "validation"
    /\ edited.eps.items = <<Item("e1", 0), Item("e1", 1)>>

\* C23: create_quiz given a list that names an exercise which is not in
\* the store raises an error and writes nothing, also when other
\* exercises of the list are in the store.
UnknownExerciseRejected ==
    [][(op' = "create_quiz" /\ NamesUnknown(edited'.eps.items))
        => (outcome' = "validation" /\ StoreUnchanged)]_vars

\* the list with the known e1 and the unknown e3 was rejected
UnknownSeen ==
    /\ op = "create_quiz" /\ outcome = "validation"
    /\ edited.eps.items = <<Item("e1", 0), Item("e3", 1)>>
    /\ "e1" \in pool /\ "e3" \notin pool

\* C24: create_quiz given distinct exercises of the store creates one
\* quiz of the given owner and one link per entry, at the position of the
\* entry and with is_correct null, and changes no other row.
ValidInputCreated ==
    [][(/\ op' = "create_quiz"
        /\ ~Repeats(edited'.eps.items)
        /\ ~NamesUnknown(edited'.eps.items))
        => LET id == edited'.quiz
           IN  /\ outcome' = "ok"
               /\ id \notin DOMAIN quizzes
               /\ DOMAIN quizzes' = DOMAIN quizzes \cup {id}
               /\ DOMAIN links' = DOMAIN quizzes'
               /\ quizzes'[id].owner = edited'.owner
               /\ OthersKept(id)
               /\ LinkedAs(links'[id], edited'.eps.items)
               /\ \A e \in DOMAIN links'[id] : links'[id][e].is_correct = Null]_vars

\* e1 was created at position 2 and e2 at position 0, as asked
CreatedAsSupplied ==
    /\ op = "create_quiz" /\ outcome = "ok"
    /\ edited.eps.items = <<Item("e1", 2), Item("e2", 0)>>
    /\ links[edited.quiz]["e1"].position = 2
    /\ links[edited.quiz]["e2"].position = 0

\* C25: update_quiz without exercise_positions leaves the links of the
\* quiz as they were; with exercise_positions an empty list, and with
\* exercise_positions null, it leaves the quiz without links.
PositionsOmittedEmptyOrNull ==
    [][(op' = "update_quiz" /\ edited'.quiz \in DOMAIN quizzes)
        => LET q   == edited'.quiz
               eps == edited'.eps
           IN  /\ eps.kind = Unset
                  => (outcome' = "ok" /\ links'[q] = links[q])
               /\ (eps.kind = "list" /\ eps.items = <<>>)
                  => (outcome' = "ok" /\ links'[q] = NoLinks)
               /\ eps.kind = Null
                  => (outcome' = "ok" /\ links'[q] = NoLinks)]_vars

\* exercise_positions was null and the quiz is without links, while a
\* quiz updated before without the field has kept its own
NullCleared ==
    /\ op = "update_quiz" /\ outcome = "ok"
    /\ edited.eps = NullPositions
    /\ links[edited.quiz] = NoLinks
    /\ \E x \in DOMAIN quizzes : quizzes[x].title = "t2" /\ links[x] # NoLinks

\* C26 as claimed: update_quiz given a list leaves the quiz with exactly
\* the entries of the list as its links, and the other quizzes as they were.
ListReplacesLinks ==
    [][(/\ op' = "update_quiz"
        /\ edited'.quiz \in DOMAIN quizzes
        /\ edited'.eps.kind = "list")
        => /\ LinkedAs(links'[edited'.quiz], edited'.eps.items)
           /\ OthersKept(edited'.quiz)]_vars

\* C26 as amended: update_quiz given a list of distinct exercises of the
\* store leaves the quiz with exactly the entries of the list as its
\* links, and the other quizzes as they were; given a list that repeats
\* an exercise or names an unknown one it raises and changes nothing.
ValidListReplacesLinks ==
    [][(/\ op' = "update_quiz"
        /\ edited'.quiz \in DOMAIN quizzes
        /\ edited'.eps.kind = "list")
        => IF Repeats(edited'.eps.items) \/ NamesUnknown(edited'.eps.items)
           THEN outcome' = "integrity_error" /\ StoreUnchanged
           ELSE /\ outcome' = "ok"
                /\ LinkedAs(links'[edited'.quiz], edited'.eps.items)
                /\ OthersKept(edited'.quiz)]_vars

\* the links of a quiz were replaced by e2 at position 3, and the other
\* quiz has its links
ReplacedByList ==
    /\ op = "update_quiz" /\ outcome = "ok"
    /\ edited.eps = Positions(<<Item("e2", 3)>>)
    /\ DOMAIN links[edited.quiz] = {"e2"}
    /\ links[edited.quiz]["e2"].position = 3
    /\ \E x \in DOMAIN quizzes : x # edited.quiz /\ DOMAIN links[x] = {"e1", "e2"}

\* C27: an update, through the engine or through the route, changes the
\* title only to a title that was sent and is not null, the status only to
\* a status that was sent and is not null, and the links only when
\* exercise_positions was sent.
OnlySentFieldsOverwritten ==
    [][(/\ op' \in {"update_quiz", "PUT /{id}"}
        /\ edited'.quiz \in DOMAIN quizzes)
        => LET q == edited'.quiz
           IN  /\ edited'.title \in {Unset, Null}
                  => quizzes'[q].title = quizzes[q].title
               /\ edited'.status \in {Unset, Null}
                  => quizzes'[q].status = quizzes[q].status
               /\ edited'.eps.kind = Unset => links'[q] = links[q]
               /\ (outcome' = "ok" /\ edited'.title \notin {Unset, Null})
                  => quizzes'[q].title = edited'.title
               /\ (outcome' = "ok" /\ edited'.status \notin {Unset, Null})
                  => quizzes'[q].status = edited'.status]_vars

(***************************************************************************)
(* The quizzes of two owners, checked under SpecOwners                     *)
(***************************************************************************)
\* but for the quizzes in `but', a quiz that is not an active quiz of
\* owner o is as it was; every quiz has its owner, its title and its links
OnlyActiveOfOwnerTouched(o, but) ==
    /\ \A q \in DOMAIN quizzes :
        /\ q \in DOMAIN quizzes'
        /\ quizzes'[q].owner = quizzes[q].owner
        /\ quizzes'[q].title = quizzes[q].title
        /\ links'[q] = links[q]
        /\ (q \notin but /\ (quizzes[q].owner # o \/ quizzes[q].status # "active"))
           => quizzes'[q] = quizzes[q]

\* C21: deactivate_quizzes(owner), alone and within a start or a load of
\* that owner, leaves every quiz of another owner and every quiz of the
\* owner that is not active as it was (but for the quiz that is loaded),
\* and changes no title, no link and no is_correct.
DeactivationTouchesOnlyActiveOfOwner ==
    [][/\ \A o \in Users :
            DeactivateQuizzes(o)
            => (DOMAIN quizzes' = DOMAIN quizzes /\ OnlyActiveOfOwnerTouched(o, {}))
       /\ \A o \in Users, n \in {0, 1} :
            StartNewQuiz(o, n, {}, NoTitle) => OnlyActiveOfOwnerTouched(o, {})
       /\ \A c \in Users, q \in QuizIds :
            LoadRoute(c, q) => OnlyActiveOfOwnerTouched(c, {q})]_vars

\* after a deactivation one user's quiz is in_progress while the other
\* user's quiz is active, with its mark
OtherOwnerStillActive ==
    /\ op = "deactivate_quizzes" /\ outcome = "ok"
    /\ \E a, b \in DOMAIN quizzes :
        /\ quizzes[a].owner = "u1" /\ quizzes[a].status = "in_progress"
        /\ quizzes[b].owner = "u2" /\ quizzes[b].status = "active"
        /\ "e1" \in DOMAIN links[b] /\ links[b]["e1"].is_correct = "true"

(***************************************************************************)
(* Permissions of the routes, checked under Spec                           *)
(***************************************************************************)
\* the request ends in the permission error and has written nothing
Denied == outcome' = "forbidden" /\ StoreUnchanged

\* caller c does not own the existing quiz q
NotOwner(c, q) == q \in DOMAIN quizzes /\ quizzes[q].owner # c

\* C28: a request of a caller who is not the owner of the quiz, to the
\* update, delete, save, submit or load route, and a start request whose
\* URL names another user than the caller, ends in the permission error
\* and changes no quiz and no link, whatever user the URL names.
NonOwnerNeverMutates ==
    [][/\ \A c \in Users, q \in QuizIds :
            NotOwner(c, q)
            => /\ \A u \in Users, r \in LifeUpdates :
                    UpdateRoute(c, u, q, r.status, Unset, r.eps) => Denied
               /\ DeleteRoute(c, q) => Denied
               /\ LoadRoute(c, q) => Denied
               /\ \A a \in LifeAnswers :
                    /\ SaveRoute(c, q, a) => Denied
                    /\ SubmitRoute(c, q, a) => Denied
       /\ \A c, u \in Users, r \in LifeStarts :
            (c # u /\ StartRoute(c, r.length, r.tags, NoTitle)) => Denied]_vars

\* C29: every route addressed by a quiz id answers not-found for a quiz
\* that does not exist, whoever calls, and the permission error for an
\* existing quiz of another user, whatever its status.
ExistenceThenPermissionThenState ==
    [][\A c \in Users, q \in QuizIds :
        LET served ==
                \/ \E r \in LifeUpdates : UpdateRoute(c, c, q, r.status, Unset, r.eps)
                \/ DeleteRoute(c, q)
                \/ LoadRoute(c, q)
                \/ \E a \in LifeAnswers : SaveRoute(c, q, a) \/ SubmitRoute(c, q, a)
        IN  /\ (q \notin DOMAIN quizzes /\ served) => outcome' = "not_found"
            /\ (NotOwner(c, q) /\ served) => outcome' = "forbidden"]_vars

\* C30: load_active_quiz returns an active quiz of the owner when there
\* is one and None otherwise; a load request returns only a quiz of the
\* caller that is active, answers not-found when the caller has no active
\* quiz, and changes the status of no quiz.
LoadReturnsOnlyActive ==
    /\ [](\A o \in Users :
            LET r == LoadActiveQuiz(quizzes, o)
            IN  IF \E q \in DOMAIN quizzes :
                        quizzes[q].owner = o /\ quizzes[q].status = "active"
                THEN r \in DOMAIN quizzes
                     /\ quizzes[r].owner = o /\ quizzes[r].status = "active"
                ELSE r = NoQuiz)
    /\ [][\A c \in Users, q \in QuizIds :
            (LoadRoute(c, q) /\ ~NotOwner(c, q))
            => /\ \A x \in DOMAIN quizzes :
                    x \in DOMAIN quizzes' /\ quizzes'[x].status = quizzes[x].status
               /\ outcome' = "ok"
                  => (quizzes[q].owner = c /\ quizzes[q].status = "active")
               /\ (\A x \in DOMAIN quizzes :
                      ~(quizzes[x].owner = c /\ quizzes[x].status = "active"))
                  => outcome' = "not_found"]_vars

(***************************************************************************)
(* Deletion: exercises and quizzes are created and deleted, checked under  *)
(* SpecCascade                                                             *)
(***************************************************************************)
CascadeItems ==
    {<<>>, <<Item("e1", 0)>>, <<Item("e2", 0)>>, <<Item("e1", 1), Item("e2", 0)>>}

InitCascade == InitStore({"e1"})

NextCascade ==
    \/ \E e \in {"e1", "e2"} : CreateExercise(e)
    \/ \E e \in {"e1", "e2"} : DeleteExercise(e)
    \/ \E o \in Users, it \in CascadeItems : CreateQuiz(o, "new", NoTitle, it)
    \/ \E o \in Users, n \in {0, 2} : StartNewQuiz(o, n, {}, NoTitle)
    \/ \E q \in QuizIds : DeleteQuiz(q)
    \/ \E c \in Users, q \in QuizIds : DeleteRoute(c, q)

SpecCascade == InitCascade /\ [][NextCascade]_vars

\* every link row names a quiz row and an exercise row
NoDanglingLink ==
    /\ DOMAIN links = DOMAIN quizzes
    /\ \A q \in DOMAIN links : DOMAIN links[q] \subseteq pool

\* the exercise is gone with its links; every quiz is there, with its
\* other links as they were, and the owner's active quiz loads as before
ExerciseGone(e) ==
    /\ e \notin pool'
    /\ quizzes' = quizzes
    /\ \A o \in Users : LoadActiveQuiz(quizzes', o) = LoadActiveQuiz(quizzes, o)
    /\ \A q \in DOMAIN quizzes :
        /\ DOMAIN links'[q] = DOMAIN links[q] \ {e}
        /\ \A x \in DOMAIN links'[q] : links'[q][x] = links[q][x]

\* the quiz is gone with its links
QuizGone(q) == q \notin DOMAIN quizzes' /\ q \notin DOMAIN links'

\* C31: whatever quizzes and exercises are created and deleted, every
\* link names a quiz and an exercise that exist; a quiz deleted through
\* the engine, or by its owner through the route, is gone with all its
\* links; an exercise that is deleted is gone with its link in every
\* quiz, and the quizzes stay with their other links.
LinksNeverDangle ==
    /\ []NoDanglingLink
    /\ [][/\ \A q \in DOMAIN quizzes :
              (DeleteQuiz(q) \/ DeleteRoute(quizzes[q].owner, q)) => QuizGone(q)
          /\ \A e \in pool : DeleteExercise(e) => ExerciseGone(e)]_vars

(***************************************************************************)
(* The quiz returned to the caller, checked under SpecPublic: quizzes are  *)
(* started over the exercises e1 and e2 and graded                         *)
(***************************************************************************)
\* the lengths asked for: below zero, zero, one, and more than there are
\* exercises
PublicLengths == {0 - 1, 0, 1, MaxLen}

\* the tags asked for: none, one that e2 carries, one no exercise carries
PublicTags == {{}, {"geometry"}, {"chemistry"}}

InitPublic == InitStore({"e1", "e2"})

NextPublic ==
    \/ \E o \in Users, n \in PublicLengths, t \in PublicTags :
            StartNewQuiz(o, n, t, NoTitle)
    \/ \E q \in QuizIds : SaveQuizProgress(q, RightAnswer)
    \/ \E q \in QuizIds : SubmitQuiz(q, RightAnswer)

SpecPublic == InitPublic /\ [][NextPublic]_vars

\* the solutions a store can hold for an exercise
SolutionTexts == {Solution(e) : e \in ExerciseIds} \cup {<<"7">>}

\* the solutions of the store of the model
StoredSolutions == [e \in pool |-> Solution(e)]

\* C32: the quiz returned for any quiz row, so for the quiz start_new_quiz
\* has created, the one load_active_quiz finds and the one get_quiz_by_id
\* is asked for, is the same over every store that differs from the store
\* of the model in the solutions of its exercises only.
SolutionsStripped ==
    \A q \in DOMAIN quizzes : \A sol \in [pool -> SolutionTexts] :
        QuizPublic(quizzes, links, q, sol) = QuizPublic(quizzes, links, q, StoredSolutions)

\* start_new_quiz has returned a quiz with e1 and e2, whose solutions differ
StartedWithTwoSolutions ==
    /\ op = "start_new_quiz" /\ outcome = "ok"
    /\ DOMAIN links[created] = {"e1", "e2"}
    /\ Solution("e1") # Solution("e2")
    /\ LoadActiveQuiz(quizzes, quizzes[created].owner) = created
    /\ Cardinality(QuizPublic(quizzes, links, created, StoredSolutions).exercises) = 2

\* C33: a start_new_quiz asking for a length of zero or less, or for tags
\* no exercise carries, succeeds: it inserts one quiz of the owner, active
\* and without links, and leaves every quiz of the owner that was active
\* in_progress.
EmptyStartStillActivates ==
    [][\A o \in Users, n \in PublicLengths, t \in PublicTags :
        (/\ op' = "start_new_quiz"
         /\ n <= 0 \/ Qualifying(pool, t) = {}
         /\ StartNewQuiz(o, n, t, NoTitle))
        => /\ outcome' = "ok"
           /\ created' = created + 1
           /\ DOMAIN quizzes' = DOMAIN quizzes \cup {created'}
           /\ quizzes'[created'].owner = o
           /\ quizzes'[created'].status = "active"
           /\ links'[created'] = NoLinks
           /\ \A a \in DOMAIN quizzes :
                quizzes'[a] = IF a \in ActiveOf(quizzes, o)
                              THEN [quizzes[a] EXCEPT !.status = "in_progress"]
                              ELSE quizzes[a]]_vars

\* an empty quiz was started over the owner's active quiz, which has its
\* exercises and is in progress
EmptyStartedOverActive ==
    /\ op = "start_new_quiz" /\ outcome = "ok"
    /\ pool # {}
    /\ links[created] = NoLinks /\ quizzes[created].status = "active"
    /\ \E a \in DOMAIN quizzes :
        /\ a # created /\ quizzes[a].owner = quizzes[created].owner
        /\ quizzes[a].status = "in_progress" /\ links[a] # NoLinks

(***************************************************************************)
(* Courses with their modules, checked under SpecCourses, and the          *)
(* attachments of the modules of one course, checked under SpecCatalog     *)
(***************************************************************************)
MaxCourses == 2

MaxAttachments == 3

MaxModules == 3

\* the modules of a course creation: at most MaxModules, with the orders
\* 0, 1, 2
ModuleLists ==
    UNION {[1..n -> {[order |-> o] : o \in 0..2}] : n \in 0..MaxModules}

\* the module ids asked for: none, those of a first course, and one more
ModuleIds == NoModule..3

\* order_list of a reorder: attachment ids, none twice, one of them an id
\* that no attachment has
OrderLists ==
    {l \in UNION {[1..n -> 1..(MaxAttachments + 1)] : n \in 0..MaxAttachments} :
        \A i, j \in DOMAIN l : i # j => l[i] # l[j]}

InitCatalog == InitStore({})

\* the requests, while fewer than MaxCourses courses and MaxAttachments
\* attachments were created
CreateCourse(c, mods) ==
    /\ Cardinality(courses) < MaxCourses
    /\ CreateCourseRoute(c, mods)

CreateAttachment(m) ==
    /\ Cardinality(DOMAIN attachments) < MaxAttachments
    /\ CreateAttachmentRoute(m)

NextCourses ==
    \E c \in Users, mods \in ModuleLists : CreateCourse(c, mods)

SpecCourses == InitCatalog /\ [][NextCourses]_vars

\* the modules of the one course that gets attachments: one or two, in order
CatalogModuleLists ==
    {mods \in ModuleLists : Len(mods) >= 1 /\ \A i \in DOMAIN mods : mods[i].order = i}

CreateCatalogCourse(c, mods) ==
    /\ courses = {}
    /\ CreateCourseRoute(c, mods)

NextCatalog ==
    \/ \E c \in Owners, mods \in CatalogModuleLists : CreateCatalogCourse(c, mods)
    \/ \E m \in ModuleIds : CreateAttachment(m)
    \/ \E m \in ModuleIds, l \in OrderLists : ReorderAttachments(m, l)

SpecCatalog == InitCatalog /\ [][NextCatalog]_vars

\* the orders of the attachments of module m
OrdersIn(att, m) == {att[a].order : a \in AttachmentsIn(att, m)}

\* C34: creating an attachment in an existing module succeeds and gives it
\* the largest order of the module's attachments plus one, and 1 in a module
\* without attachments; a module whose orders were 1..k has 1..k+1 after
\* it; and at no time do two attachments of one module share an order
AttachmentOrdersCount ==
    /\ []UniqueAttachmentOrder(attachments)
    /\ [][\A m \in DOMAIN modules :
            CreateAttachment(m) =>
                LET old == OrdersIn(attachments, m)
                    new == attachments'[NextId(attachments)]
                IN  /\ outcome' = "ok"
                    /\ DOMAIN attachments' = DOMAIN attachments \cup {NextId(attachments)}
                    /\ new.module = m
                    /\ new.order = IF old = {} THEN 1 ELSE Max(old) + 1
                    /\ old = 1..Cardinality(old)
                           => OrdersIn(attachments', m) = 1..(Cardinality(old) + 1)]_vars

\* three attachments were created one after another in one module
ThreeCreatedInOneModule ==
    /\ op = "POST /attachments"
    /\ outcome = "ok"
    /\ \E m \in DOMAIN modules :
          /\ Cardinality(AttachmentsIn(attachments, m)) = 3
          /\ OrdersIn(attachments, m) = 1..3

\* C35: a reorder of a module that exists with a list whose ids all exist
\* gives every listed attachment its place in the list, counted from 0;
\* a reorder of a missing module, or with an id that no attachment has,
\* is refused with 404 or 400 and changes no attachment
ReorderAllOrNothing ==
    [][\A m \in ModuleIds, l \in OrderLists :
          ReorderAttachments(m, l) =>
              IF m \in DOMAIN modules /\ \A i \in DOMAIN l : l[i] \in DOMAIN attachments
              THEN \A i \in DOMAIN l : attachments'[l[i]].order = i - 1
              ELSE /\ outcome' \in {"not_found", "bad_request"}
                   /\ attachments' = attachments]_vars

\* the entries of a request whose order is below 1
TooSmall(mods) == {i \in DOMAIN mods : mods[i].order < 1}

\* the entries of a request that repeat the order of an earlier entry
Repeating(mods) ==
    {i \in DOMAIN mods : \E j \in 1..(i - 1) : mods[j].order = mods[i].order}

\* the course and one module per entry are created, with distinct orders
CourseCreated(mods) ==
    LET new == DOMAIN modules' \ DOMAIN modules
        c   == CHOOSE x \in courses' : x \notin courses
    IN  /\ outcome' = "ok"
        /\ Cardinality(courses') = Cardinality(courses) + 1
        /\ courses \subseteq courses'
        /\ \A m \in DOMAIN modules : modules'[m] = modules[m]
        /\ Cardinality(new) = Len(mods)
        /\ \A m \in new : modules'[m].course = c
        /\ \A i \in DOMAIN mods : \E m \in new : modules'[m].order = mods[i].order
        /\ \A m, k \in new : modules'[m].order = modules'[k].order => m = k

\* the creation is refused and neither a course nor a module is created
CourseRefused ==
    /\ outcome' = "bad_request"
    /\ courses' = courses
    /\ modules' = modules

\* C36 as stated: a course creation with an entry whose order is below 1
\* or repeats an earlier order is refused with one error per such entry,
\* and nothing is created; any other creation creates the course and one
\* module per entry, with distinct orders
OneErrorPerOffendingModule ==
    [][\A c \in Users, mods \in ModuleLists :
          CreateCourse(c, mods) =>
              IF TooSmall(mods) \cup Repeating(mods) # {}
              THEN /\ CourseRefused
                   /\ Len(errors') = Cardinality(TooSmall(mods) \cup Repeating(mods))
              ELSE CourseCreated(mods)]_vars

\* C36 amended: the refused creation carries one error per broken rule,
\* "Order must be >= 1" for every entry below 1 and "Duplicate order" for
\* every entry repeating an earlier order, so two for an entry that does
\* both, listed by entry; the rest as stated
OneErrorPerBrokenRule ==
    [][\A c \in Users, mods \in ModuleLists :
          CreateCourse(c, mods) =>
              IF TooSmall(mods) \cup Repeating(mods) # {}
              THEN /\ CourseRefused
                   /\ Len(errors') = Cardinality(TooSmall(mods)) + Cardinality(Repeating(mods))
                   /\ {errors'[k] : k \in DOMAIN errors'}
                        = {OrderTooSmall(i - 1) : i \in TooSmall(mods)}
                          \cup {DuplicateOrder(i - 1, mods[i].order) : i \in Repeating(mods)}
                   /\ \A k \in 1..(Len(errors') - 1) : errors'[k].index <= errors'[k + 1].index
              ELSE CourseCreated(mods)]_vars

\* a creation was refused with two errors for one entry
RefusedWithTwoErrorsForOneEntry ==
    /\ op = "POST /courses"
    /\ outcome = "bad_request"
    /\ \E i, j \in DOMAIN errors : i # j /\ errors[i].index = errors[j].index

(***************************************************************************)
(* A save or submit of one quiz run next to starts, checked under          *)
(* SpecSave.  The caller reads the quiz, then save_quiz_progress or        *)
(* submit_quiz writes the grades and the status, then the caller commits;  *)
(* the statements of other transactions run in between (READ COMMITTED).   *)
(***************************************************************************)
GradingIds == (MaxStarts + 1)..(2 * MaxStarts)

\* the transaction that grades quiz q
GradingOf(q) == MaxStarts + q

\* the status save_quiz_progress and submit_quiz assign
Assigned(kind) == IF kind = "submit_quiz" THEN "submitted" ELSE "active"

\* the caller reads quiz q and hands the object to the engine
LoadForGrading(q, kind) ==
    /\ q \in DOMAIN quizzes
    /\ GradingOf(q) \notin DOMAIN txs
    /\ txs' = [t \in DOMAIN txs \cup {GradingOf(q)} |->
                 IF t = GradingOf(q)
                 THEN [kind |-> kind, owner |-> quizzes[q].owner, pc |-> "grade",
                       lk |-> NoLinks, targets |-> {q}, demoted |-> {},
                       seen |-> quizzes[q].status]
                 ELSE txs[t]]
    /\ UNCHANGED <<quizzes, links, pool, created, op, outcome, formed, answered, edited>>
    /\ UNCHANGED catalog

\* the flush writes the status of the quiz only when the assignment has
\* changed the value the object was loaded with
StatusWritten(t) == txs[t].seen # Assigned(txs[t].kind)

\* the index lets the save pass whatever other transactions hold
NoGradingIndexWait(t, q) == t \notin DOMAIN txs

\* the UPDATE to 'active' waits for the end of a transaction that holds
\* an uncommitted entry of the owner in the index, or that has updated
\* the quiz whose entry is in the way
GradingIndexWait(t, q) ==
    \/ \E u \in Open(txs[t].owner) \ {t} : HoldsEntry(u)
    \/ LockedByOthers(t, ActiveOf(quizzes, txs[t].owner) \ {q}) # {}

\* the flush of the grading: the grades, and the UPDATE of the quiz row
\* if the status is written; the UPDATE waits for a transaction that has
\* updated the row, and the index rejects a second active quiz
GradeFlush(t) ==
    /\ t \in DOMAIN txs /\ txs[t].pc = "grade"
    /\ LET q == CHOOSE x \in txs[t].targets : TRUE
       IN  IF ~StatusWritten(t)
           THEN /\ txs' = [txs EXCEPT ![t].pc = "close"]
                /\ UNCHANGED <<op, outcome>>
           ELSE /\ LockedByOthers(t, {q}) = {}
                /\ Assigned(txs[t].kind) = "active" => ~GradingIndexWait(t, q)
                /\ IF UniqueActiveIndex(WithStatus(quizzes, q, Assigned(txs[t].kind)))
                   THEN /\ txs' = [txs EXCEPT ![t].pc = "close", ![t].demoted = {q}]
                        /\ UNCHANGED <<op, outcome>>
                   ELSE /\ txs' = Closed(t)
                        /\ op' = txs[t].kind
                        /\ outcome' = "conflict"
    /\ UNCHANGED <<quizzes, links, pool, created, formed, answered, edited>>
    /\ UNCHANGED catalog

\* the caller's commit of the grading
CommitGrading(t) ==
    /\ t \in DOMAIN txs /\ txs[t].pc = "close"
    /\ LET q == CHOOSE x \in txs[t].targets : TRUE
       IN  /\ quizzes' = IF txs[t].demoted = {}
                         THEN quizzes
                         ELSE WithStatus(quizzes, q, Assigned(txs[t].kind))
           /\ links' = [links EXCEPT ![q] = Graded(links[q], RightAnswer)]
    /\ txs' = Closed(t)
    /\ op' = txs[t].kind
    /\ outcome' = "ok"
    /\ UNCHANGED <<pool, created, formed, answered, edited>>
    /\ UNCHANGED catalog

InitSave == InitStore({"e1"})

NextSave ==
    \/ \E o \in Owners : LockOwnerRow(o)
    \/ \E t \in StartIds : FormQuizLocked(t)
    \/ \E t \in StartIds : SelectActive(t)
    \/ \E t \in StartIds : DemoteActive(t)
    \/ \E t \in StartIds : Promote(t)
    \/ \E t \in StartIds : CommitStart(t)
    \/ \E q \in StartIds, kind \in {"save_quiz_progress", "submit_quiz"} :
            LoadForGrading(q, kind)
    \/ \E t \in GradingIds : GradeFlush(t)
    \/ \E t \in GradingIds : CommitGrading(t)

SpecSave == InitSave /\ [][NextSave]_vars

\* C37: with saves and submits of a quiz run in between the statements of
\* starts of the same owner, no committed state has two active quizzes of
\* one owner; and a save that read its quiz as 'active' commits without
\* writing the status, so a quiz demoted since stays as the start left it
SaveNextToStartExclusive ==
    /\ [](\A o \in Users : \A a, b \in ActiveOf(quizzes, o) : a = b)
    /\ [][\A t \in GradingIds :
            (/\ t \in DOMAIN txs
             /\ txs[t].kind = "save_quiz_progress"
             /\ txs[t].seen = "active"
             /\ CommitGrading(t)) => quizzes' = quizzes]_vars

\* a save has read quiz A as 'active', a start has since demoted A and
\* committed B as the active quiz, and the save is about to commit
SaveOvertakenByStart ==
    \E t \in DOMAIN txs :
        /\ txs[t].kind = "save_quiz_progress"
        /\ txs[t].pc = "close"
        /\ txs[t].seen = "active"
        /\ \E a \in txs[t].targets :
              /\ quizzes[a].status = "in_progress"
              /\ ActiveOf(quizzes, quizzes[a].owner) # {}

(***************************************************************************)
(* The active quiz an owner loads, from its start on, checked under        *)
(* SpecLoad                                                                *)
(***************************************************************************)
InitLoad == InitStore({"e1"})

NextLoad ==
    \/ \E o \in Users, n \in {0, 1} : StartNewQuiz(o, n, {}, NoTitle)
    \/ \E q \in QuizIds : SaveQuizProgress(q, RightAnswer)
    \/ \E q \in QuizIds : SubmitQuiz(q, RightAnswer)
    \/ \E c \in Users, q \in QuizIds : LoadRoute(c, q)
    \/ \E c \in Users, q \in QuizIds : SaveRoute(c, q, <<>>)
    \/ \E c \in Users, q \in QuizIds : SubmitRoute(c, q, <<>>)
    \/ \E q \in QuizIds, st \in {"in_progress", "active"} :
            UpdateQuiz(q, st, Unset, NoPositions)
    \/ \E q \in QuizIds : DeleteQuiz(q)

SpecLoad == InitLoad /\ [][NextLoad]_vars

\* a quiz of owner o other than q is active after the step and was not before
OtherActivated(o, q) ==
    \E x \in ActiveOf(quizzes', o) \ {q} : x \notin ActiveOf(quizzes, o)

\* quiz q is submitted by the step
SubmittedNow(q) ==
    /\ q \in DOMAIN quizzes'
    /\ quizzes'[q].status = "submitted"
    /\ quizzes[q].status # "submitted"

\* C38: the quiz a successful start_new_quiz of owner o has stored is the
\* one load_active_quiz gives for o; the quiz it gives stays the same over
\* every step in which o neither gets another quiz activated nor has this
\* one submitted; and once it is submitted with no other quiz activated,
\* load_active_quiz gives none
StartedQuizStaysLoaded ==
    [][\A o \in Users :
          LET q == LoadActiveQuiz(quizzes, o)
          IN  /\ (/\ op' = "start_new_quiz" /\ outcome' = "ok"
                  /\ created' # created
                  /\ quizzes'[created'].owner = o)
                     => LoadActiveQuiz(quizzes', o) = created'
              /\ (q # NoQuiz /\ ~OtherActivated(o, q) /\ ~SubmittedNow(q))
                     => LoadActiveQuiz(quizzes', o) = q
              /\ (q # NoQuiz /\ ~OtherActivated(o, q) /\ SubmittedNow(q))
                     => LoadActiveQuiz(quizzes', o) = NoQuiz]_vars

(***************************************************************************)
(* Progress of concurrent starts, checked under SpecConcFair: the database *)
(* runs every statement that is not waiting for a lock, and the event loop *)
(* resumes every coroutine whose statement has returned.                   *)
(***************************************************************************)
\* the next statement of start t
StartStep(t) ==
    \/ FormQuizLocked(t)
    \/ SelectActive(t)
    \/ DemoteActive(t)
    \/ Promote(t)
    \/ CommitStart(t)

SpecConcFair == SpecConc /\ \A t \in StartIds : WF_vars(StartStep(t))

\* C39: every start that was begun ends, committed or rejected by the
\* index; at no time are all open starts waiting; a start waits only
\* while another start of its own owner is open, and the lock on an
\* owner's row is granted whenever no start of that owner is open
StartsMakeProgress ==
    /\ \A t \in StartIds : (t \in DOMAIN txs) ~> (t \notin DOMAIN txs)
    /\ [](txs # <<>> => \E t \in DOMAIN txs : ENABLED StartStep(t))
    /\ [](\A t \in DOMAIN txs :
            Open(txs[t].owner) = {t} => ENABLED StartStep(t))
    /\ [](\A o \in Users :
            (created < MaxStarts /\ Open(o) = {}) => ENABLED LockOwnerRow(o))

\* three starts of two owners were begun and all of them have ended, the
\* last one rejected by the index
StartsAllEnded ==
    /\ created >= 3
    /\ txs = <<>>
    /\ outcome = "conflict"
    /\ \E a, b \in DOMAIN quizzes : quizzes[a].owner # quizzes[b].owner

(***************************************************************************)
(* What the grading leaves alone, checked under SpecPublic                 *)
(***************************************************************************)
\* C40: save_quiz_progress and submit_quiz of quiz q keep the quizzes and
\* the exercises that exist, change of the quiz rows at most the status of
\* q, keep the exercises and the positions of the links of q, and leave
\* the links of every other quiz as they are
GradingFrame ==
    [][\A q \in QuizIds :
          (SaveQuizProgress(q, RightAnswer) \/ SubmitQuiz(q, RightAnswer)) =>
              /\ pool' = pool
              /\ DOMAIN quizzes' = DOMAIN quizzes
              /\ DOMAIN links' = DOMAIN links
              /\ \A x \in DOMAIN quizzes \ {q} :
                    quizzes'[x] = quizzes[x] /\ links'[x] = links[x]
              /\ quizzes'[q] = [quizzes[q] EXCEPT !.status = quizzes'[q].status]
              /\ OnlyCorrectnessChanged(q)]_vars

\* a save has graded the link of e1 in one quiz while the link of e1 in
\* another quiz is not graded
GradedInOneQuizOnly ==
    /\ op = "save_quiz_progress"
    /\ outcome = "ok"
    /\ \E a, b \in DOMAIN links :
          /\ a # b
          /\ "e1" \in DOMAIN links[a] \cap DOMAIN links[b]
          /\ links[a]["e1"].is_correct = "true"
          /\ links[b]["e1"].is_correct = Null

====
